---- MODULE Spec2Model ----
(***************************************************************************)
(* State-machine model of the matching and coin-ledger core of             *)
(* backend-meeting (Django).  Tables are sets of row records; a handler    *)
(* is one action that applies, in program order, every database write the  *)
(* handler performs.                                                       *)
(*                                                                         *)
(*   Spec      request handlers of apps/matching run one after the other   *)
(*   SpecConc  two swipe requests interleaved statement by statement       *)
(*   SpecCoin  wallet operations of apps/messaging                         *)
(*   SpecMsg   messaging requests (send_message, check_cost) and blocks    *)
(*   SpecQuota DailyMessageQuota operations of apps/messaging              *)
(***************************************************************************)
EXTENDS Integers, Sequences, FiniteSets, TLC

\* ------------------------------------------------------------- bounds
\* Largest value of the wall clock (timezone.now()) explored.
MaxClock == 1

\* Number of matching requests served in one behaviour.
MaxCalls == 4

\* Number of wallet operations served in one behaviour.
MaxOps == 3

\* User ids (User.id is a UUID; only identity and order matter).  A request
\* touches the rows of one unordered pair of users only, so two users show
\* every interaction between rows.
Users == {1, 2}
Others(u) == Users \ {u}

\* Values calculate_match_score may return for a pair at swipe time; the
\* profiles it reads are owned by the profile subsystem and change freely.
Scores == {40, 80}

\* Match.matched_at is nullable; NullTime stands for NULL.
NullTime == -1

\* Match.status values the code stores: MATCH_STATUS's pending and matched,
\* and the literal written by MatchViewSet.reject.
StatusPending == "pending"
StatusMatched == "matched"
StatusRejected == "rejected"

VARIABLES
    swipes,     \* table swipe_actions: set of SwipeAction rows
    matches,    \* table matches: set of Match rows
    blocks,     \* table blocks: set of <<blocker, blocked_user>>
    now,        \* the wall clock read by timezone.now()
    hist,       \* the last two completed matching requests (observer)
    calls,      \* number of requests served so far
    pc,         \* SpecConc: position of each concurrent swipe request
    txn,        \* SpecConc: uncommitted writes of each request's open transaction
    loc,        \* SpecConc: local variables of each request
    wallets,    \* table coin_wallets: set of CoinWallet rows
    ledger,     \* table coin_transactions: CoinTransaction rows, oldest first
    obj,        \* SpecCoin: the CoinWallet object each caller holds in memory
    last,       \* SpecCoin: the last wallet operation and the rows before it (observer)
    conversations,  \* table conversations: set of Conversation rows
    messages,   \* table messages: Message rows, oldest first
    quotas,     \* table daily_message_quotas: set of DailyMessageQuota rows
    bcache,     \* cache entries block_check_<min>_<max>: set of [key, value]
    inactive,   \* ids of the users with is_active = False
    sent,       \* the last messaging request and how it ended (observer)
    qobj,       \* SpecQuota: the DailyMessageQuota object each caller holds
    profiles,   \* tables profiles and user_preferences: one record per user
    cache,      \* django cache entries of the list and count getters: set of [key, value]
    seen        \* the last read served by a getter or score call (observer)

vars == <<swipes, matches, blocks, now, hist, calls, pc, txn, loc,
          wallets, ledger, obj, last,
          conversations, messages, quotas, bcache, inactive, sent, qobj,
          profiles, cache, seen>>

matchVars == <<swipes, matches, blocks, now, hist, calls>>
concVars == <<pc, txn, loc>>
coinVars == <<wallets, ledger, obj, last>>
msgVars == <<conversations, messages, quotas, bcache, inactive, sent, qobj>>
discVars == <<profiles, cache, seen>>

\* ------------------------------------------------------------- rows
\* No messaging request has run yet.
None == [kind |-> "None"]
NoKey == [user |-> None, date |-> None]
NoContent == [raw |-> 0, stripped |-> 0]
NoSend == [seq |-> 0, op |-> "none", sender |-> 0, receiver |-> 0,
           content |-> NoContent, result |-> "none", reason |-> "none",
           step |-> 0, cost |-> 0, key |-> NoKey]

\* No getter has been called yet.
NoSeen == [op |-> "none"]

\* No wallet operation has run yet.
NoOp == [op |-> "none", amount |-> 0, result |-> "none",
         wallets |-> {}, ledger |-> <<>>]

SwipeRow(u, t, a, s) ==
    [user |-> u, target_user |-> t, action |-> a, match_score_at_swipe |-> s]

MatchRow(u, v, st, s, mu, at) ==
    [user |-> u, matched_user |-> v, status |-> st, match_score |-> s,
     is_mutual |-> mu, matched_at |-> at]

\* Rows of a table for one ordered pair.
SwipesOf(S, u, t) == {r \in S : r.user = u /\ r.target_user = t}
MatchesOf(M, u, v) == {m \in M : m.user = u /\ m.matched_user = v}

\* SwipeAction.objects.filter(user=u, target_user=t, action='like').exists()
LikeExists(S, u, t) == \E r \in SwipesOf(S, u, t) : r.action = "like"

\* The clock may advance by at most one unit between two reads.
Later(t) == {x \in t..(t + 1) : x <= MaxClock}

\* ------------------------------------------------- matching: model methods
\* Match.create_match: get_or_create on (user, matched_user); a new row is
\* pending, not mutual, matched_at NULL.  An existing row is left as it is.
\* Mutation: an existing row is reset to a pending row.
create_match_Overwrite(M, u, v, s) ==
    {m \in M : ~(m.user = u /\ m.matched_user = v)}
        \cup {[user |-> u, matched_user |-> v, status |-> "pending",
               match_score |-> s, is_mutual |-> FALSE, matched_at |-> -1]}

create_match(M, u, v, s) ==
    IF MatchesOf(M, u, v) # {}
    THEN M
    ELSE M \cup {MatchRow(u, v, StatusPending, s, FALSE, NullTime)}

\* save(update_fields=['is_mutual', 'status', 'matched_at']) of the row u -> v
\* after the three assignments of mark_as_mutual.
SaveMutual(M, u, v, at) ==
    {IF m.user = u /\ m.matched_user = v
     THEN [m EXCEPT !.is_mutual = TRUE, !.status = StatusMatched, !.matched_at = at]
     ELSE m : m \in M}

\* Mutation: the reverse row is neither updated nor created.
PromoteReverse_OwnRowOnly(M, u, v, at) == M

\* The reverse branch of Match.mark_as_mutual, given the table after the own
\* row was saved: update the reverse row unless it is already mutual, create
\* it (with the own row's score) when it is missing.
PromoteReverse(M, u, v, at) ==
    LET rev == MatchesOf(M, v, u)
        own == CHOOSE m \in MatchesOf(M, u, v) : TRUE
    IN IF rev # {}
       THEN IF \E m \in rev : ~m.is_mutual THEN SaveMutual(M, v, u, at) ELSE M
       ELSE M \cup {MatchRow(v, u, StatusMatched, own.match_score, TRUE, at)}

\* Match.mark_as_mutual on the row u -> v; t1 and t2 are the two reads of
\* timezone.now() (own row, reverse row).
mark_as_mutual(M, u, v, t1, t2) ==
    PromoteReverse(SaveMutual(M, u, v, t1), u, v, t2)

\* ------------------------------------------------- matching: signals
\* The number of saves of a mutual row made by Match.mark_as_mutual on the
\* row u -> v of table M: the own row, and the reverse row unless it is
\* already mutual (it is saved, or created mutual when missing).
MutualSaves(M, u, v) ==
    LET rev == MatchesOf(SaveMutual(M, u, v, NullTime), v, u)
    IN IF rev # {} /\ \A m \in rev : m.is_mutual THEN 1 ELSE 2

\* signals.update_match_count_on_save, run for n saves of a mutual row
\* between u and v: each save adds one to Profile.total_matches of the row's
\* user and one to that of its matched_user.
update_match_count_on_save(P, u, v, n) ==
    [P EXCEPT !.total_matches =
        [x \in DOMAIN @ |-> @[x] + (IF x = u THEN n ELSE 0)
                                  + (IF x = v THEN n ELSE 0)]]

\* signals.update_match_count_on_delete, run for every row of D: a mutual row
\* takes one from the counter of its user and of its matched_user, never
\* below zero.
update_match_count_on_delete(P, D) ==
    LET lost(x) == Cardinality({m \in D : m.is_mutual /\ m.user = x})
                   + Cardinality({m \in D : m.is_mutual /\ m.matched_user = x})
    IN [P EXCEPT !.total_matches =
           [x \in DOMAIN @ |-> IF @[x] > lost(x) THEN @[x] - lost(x) ELSE 0]]

\* The profiles of the users, with the counter the match signals maintain.
NewProfiles(U) == [total_matches |-> [u \in U |-> 0]]

\* Mutation: the test looks at the actor's own swipe.
ReciprocalLike_SameDirection(S, u, t) == LikeExists(S, u, t)

\* The reciprocity test: has the target already liked the actor?
ReciprocalLike(S, u, t) == LikeExists(S, t, u)

\* The part of SwipeAction.save that follows super().save() for a new row:
\* S already holds the new swipe.
\* Mutation: the match is created whatever the action is.
SwipeAction_save_AnyAction(S, M, u, t, a, s, t1, t2) ==
    LET M1 == create_match(M, u, t, s)
    IN IF ReciprocalLike(S, u, t) THEN mark_as_mutual(M1, u, t, t1, t2) ELSE M1

SwipeAction_save(S, M, u, t, a, s, t1, t2) ==
    IF a = "like"
    THEN LET M1 == create_match(M, u, t, s)
         IN IF ReciprocalLike(S, u, t) THEN mark_as_mutual(M1, u, t, t1, t2) ELSE M1
    ELSE M

\* Mutation: an existing row is kept as it is (get_or_create).
UpsertSwipe_KeepExisting(S, u, t, a, s) ==
    IF \E r \in S : r.user = u /\ r.target_user = t
    THEN S
    ELSE S \cup {[user |-> u, target_user |-> t, action |-> a,
                  match_score_at_swipe |-> s]}

\* SwipeAction.objects.update_or_create(user, target_user, defaults): the
\* existing row is overwritten (save() of an old row: no match side effect),
\* a missing row is created (save() of a new row).
UpsertSwipe(S, u, t, a, s) ==
    {r \in S : ~(r.user = u /\ r.target_user = t)} \cup {SwipeRow(u, t, a, s)}

\* MatchingService.create_swipe_action.  ts is the sequence of clock reads.
\* Result: the two tables, whether a mutual match is returned, and the number
\* of saves of a mutual row.
create_swipe_action(S, M, u, t, a, s, ts) ==
    LET isNew == SwipesOf(S, u, t) = {}
        S1 == UpsertSwipe(S, u, t, a, s)
        M1 == IF isNew THEN SwipeAction_save(S1, M, u, t, a, s, ts[1], ts[2]) ELSE M
        M2 == IF a = "like" THEN create_match(M1, u, t, s) ELSE M1
        mutual == a = "like" /\ ReciprocalLike(S1, u, t)
        M3 == IF mutual THEN mark_as_mutual(M2, u, t, ts[3], ts[4]) ELSE M2
        n1 == IF isNew /\ a = "like" /\ ReciprocalLike(S1, u, t)
              THEN MutualSaves(create_match(M, u, t, s), u, t) ELSE 0
        n2 == IF mutual THEN MutualSaves(M2, u, t) ELSE 0
    IN [S |-> S1, M |-> M3, mutual |-> mutual, saves |-> n1 + n2]

\* Match.objects.filter(Q(user=u, matched_user=b) | Q(user=b, matched_user=u)).delete()
\* Mutation: only the rows of the blocker are deleted.
DeleteBetween_OwnDirection(M, u, b) ==
    {m \in M : ~(m.user = u /\ m.matched_user = b)}

DeleteBetween(M, u, b) ==
    {m \in M : ~((m.user = u /\ m.matched_user = b) \/ (m.user = b /\ m.matched_user = u))}

\* ------------------------------------------------- matching: observer
\* No swipe and no match row in either direction between u and t.
NoRowsBetween(S, M, u, t) ==
    /\ SwipesOf(S, u, t) = {} /\ SwipesOf(S, t, u) = {}
    /\ MatchesOf(M, u, t) = {} /\ MatchesOf(M, t, u) = {}

Call(op, u, t, mutual, fresh) ==
    [op |-> op, user |-> u, target |-> t, mutual |-> mutual, fresh |-> fresh,
     score |-> 0]

\* A swipe request also records the score computed for it; the score is kept
\* for the latest request only.
Scored(c, s) == [c EXCEPT !.score = s]
Forget(c) == [c EXCEPT !.score = 0]

Push(h, c) == IF h = <<>> THEN <<c>> ELSE <<Forget(h[Len(h)]), c>>

\* Nondecreasing sequences of n clock reads starting at the current time.
RECURSIVE ClockReads(_, _)
ClockReads(t, n) ==
    IF n = 0 THEN {<<>>}
    ELSE UNION {{<<x>> \o rest : rest \in ClockReads(x, n - 1)} : x \in Later(t)}

\* ------------------------------------------------- django cache
\* The limit whose cache key create_swipe_action deletes, and the default
\* limit of get_potential_matches.
DefaultLimit == 20

\* f'potential_matches_{user.id}_limit_{limit}'
DiscoveryKey(u, limit) == <<"potential_matches", u, limit>>

\* cache.get / cache.delete / cache.set on the set of entries.
CacheGet(C, k) == {e \in C : e.key = k}
CacheDelete(C, k) == {e \in C : e.key # k}
CacheSet(C, k, v) == CacheDelete(C, k) \cup {[key |-> k, value |-> v]}

\* ------------------------------------------------- matching: handlers
\* FeedViewSet.swipe: create_swipe_action, which also deletes the actor's
\* cached discovery list for limit 20, then mark_as_mutual once more on the
\* returned match of a mutual like.
swipe(u, t, a) ==
    /\ calls < MaxCalls
    /\ calls' = calls + 1
    /\ \E s \in Scores, ts \in ClockReads(now, 6) :
        LET r == create_swipe_action(swipes, matches, u, t, a, s, ts)
            M4 == IF a = "like" /\ r.mutual
                  THEN mark_as_mutual(r.M, u, t, ts[5], ts[6]) ELSE r.M
        IN /\ swipes' = r.S
           /\ matches' = M4
           /\ now' = ts[6]
           /\ profiles' = update_match_count_on_save(profiles, u, t,
                  r.saves + (IF a = "like" /\ r.mutual
                             THEN MutualSaves(r.M, u, t) ELSE 0))
           /\ hist' = Push(hist,
                  Scored(Call(a, u, t, r.mutual,
                              NoRowsBetween(swipes, matches, u, t)), s))
    /\ cache' = CacheDelete(cache, DiscoveryKey(u, DefaultLimit))
    /\ UNCHANGED <<blocks, concVars, coinVars, msgVars, seen>>

\* MatchViewSet.accept by u of the like received from v (the row v -> u).
accept(u, v) ==
    /\ calls < MaxCalls
    /\ calls' = calls + 1
    /\ MatchesOf(matches, v, u) # {}
    /\ \E ts \in ClockReads(now, 5) :
        LET match == CHOOSE m \in MatchesOf(matches, v, u) : TRUE
            isNew == SwipesOf(swipes, u, v) = {}
            S1 == IF isNew
                  THEN swipes \cup {SwipeRow(u, v, "like", match.match_score)}
                  ELSE swipes
            M1 == IF isNew
                  THEN SwipeAction_save(S1, matches, u, v, "like", match.match_score,
                                        ts[1], ts[2])
                  ELSE matches
            \* match.save() writes every field of the object loaded at the start
            M2 == {m \in M1 : ~(m.user = v /\ m.matched_user = u)}
                  \cup {[match EXCEPT !.is_mutual = TRUE, !.status = StatusMatched,
                                      !.matched_at = ts[3]]}
            M3 == IF MatchesOf(M2, u, v) = {}
                  THEN M2 \cup {MatchRow(u, v, StatusMatched, match.match_score,
                                         TRUE, ts[4])}
                  ELSE M2
            M4 == SaveMutual(M3, u, v, ts[5])
            \* saves of a mutual row: by the hook of the new swipe, match.save(),
            \* the creation of the reverse row, reverse_match.save()
            n == (IF isNew /\ ReciprocalLike(S1, u, v)
                  THEN MutualSaves(create_match(matches, u, v, match.match_score),
                                   u, v)
                  ELSE 0)
                 + 1 + (IF MatchesOf(M2, u, v) = {} THEN 1 ELSE 0) + 1
        IN /\ swipes' = S1
           /\ matches' = M4
           /\ now' = ts[5]
           /\ profiles' = update_match_count_on_save(profiles, u, v, n)
           /\ hist' = Push(hist, Call("accept", u, v, TRUE,
                                      NoRowsBetween(swipes, matches, u, v)))
           /\ UNCHANGED <<blocks, concVars, coinVars, msgVars, cache, seen>>

\* MatchViewSet.reject by u of the like received from v.
reject(u, v) ==
    /\ calls < MaxCalls
    /\ calls' = calls + 1
    /\ MatchesOf(matches, v, u) # {}
    /\ LET match == CHOOSE m \in MatchesOf(matches, v, u) : TRUE
           S1 == IF SwipesOf(swipes, u, v) = {}
                 THEN swipes \cup {SwipeRow(u, v, "pass", match.match_score)}
                 ELSE swipes
       IN /\ swipes' = S1
          /\ matches' = {m \in matches : ~(m.user = v /\ m.matched_user = u)}
                        \cup {[match EXCEPT !.status = StatusRejected]}
          /\ profiles' = update_match_count_on_save(profiles, u, v,
                              IF match.is_mutual THEN 1 ELSE 0)
          /\ hist' = Push(hist, Call("reject", u, v, FALSE,
                                     NoRowsBetween(swipes, matches, u, v)))
          /\ UNCHANGED <<blocks, now, concVars, coinVars, msgVars, cache, seen>>

\* MatchViewSet.block_user: the block row, then both directional match rows
\* are deleted.
block_user(u, b) ==
    /\ calls < MaxCalls
    /\ calls' = calls + 1
    /\ blocks' = blocks \cup {<<u, b>>}
    /\ matches' = DeleteBetween(matches, u, b)
    /\ profiles' = update_match_count_on_delete(profiles,
                        matches \ DeleteBetween(matches, u, b))
    /\ hist' = Push(hist, Call("block", u, b, FALSE,
                               NoRowsBetween(swipes, matches, u, b)))
    /\ UNCHANGED <<swipes, now, concVars, coinVars, msgVars, cache, seen>>

\* Time passes between requests.
Tick ==
    /\ now < MaxClock
    /\ now' = now + 1
    /\ UNCHANGED <<swipes, matches, blocks, hist, calls, concVars, coinVars, msgVars, discVars>>

Init ==
    /\ swipes = {}
    /\ matches = {}
    /\ blocks = {}
    /\ now = 0
    /\ hist = <<>>
    /\ calls = 0
    /\ pc = [p \in {} |-> "idle"]
    /\ txn = [p \in {} |-> {}]
    /\ loc = [p \in {} |-> {}]
    /\ wallets = {}
    /\ ledger = <<>>
    /\ obj = [h \in {} |-> {}]
    /\ last = NoOp
    /\ conversations = {}
    /\ messages = <<>>
    /\ quotas = {}
    /\ bcache = {}
    /\ inactive = {}
    /\ sent = NoSend
    /\ qobj = [h \in {} |-> {}]
    /\ profiles = NewProfiles(Users)
    /\ cache = {}
    /\ seen = NoSeen

Next ==
    \/ \E u \in Users : \E t \in Others(u), a \in {"like", "pass"} : swipe(u, t, a)
    \/ \E u \in Users : \E v \in Others(u) : accept(u, v)
    \/ \E u \in Users : \E v \in Others(u) : reject(u, v)
    \/ \E u \in Users : \E b \in Others(u) : block_user(u, b)
    \/ Tick

Spec == Init /\ [][Next]_vars

\* ------------------------------------------------- swipes on any target
(***************************************************************************)
(* SpecSelf: FeedViewSet.swipe looks the target up by id and hands it to   *)
(* create_swipe_action; neither compares it with request.user, so the      *)
(* target ranges over every user, the actor included.                      *)
(***************************************************************************)
SelfNext ==
    \/ \E u \in Users, t \in Users, a \in {"like", "pass"} : swipe(u, t, a)
    \/ Tick

SpecSelf == Init /\ [][SelfNext]_vars

\* ------------------------------------------------- concurrent swipes
(***************************************************************************)
(* SpecConc: every user sends one like to the other user at the same time. *)
(* Each database statement of FeedViewSet.swipe is one step.               *)
(* QuerySet.update_or_create runs inside transaction.atomic(): when the    *)
(* swipe row is new, its INSERT and every statement of SwipeAction.save    *)
(* stay uncommitted (txn) until the block ends, other requests do not see  *)
(* them (READ COMMITTED), and an exception leaving the block rolls them    *)
(* back.  The statements of create_swipe_action after update_or_create and *)
(* of the view run in autocommit mode.                                     *)
(***************************************************************************)
Peer(p) == CHOOSE q \in Users : q # p

NoTxn == [S |-> {}, M |-> {}]

\* Rows of T replace the rows of M with the same (user, matched_user).
Overlay(M, T) ==
    {m \in M : MatchesOf(T, m.user, m.matched_user) = {}} \cup T

\* What request p reads: committed rows and its own uncommitted writes.
ViewS(p) == swipes \cup txn[p].S
ViewM(p) == Overlay(matches, txn[p].M)

\* The row u -> v carries an uncommitted write of another request: a write
\* to it waits for that transaction to end.
LockedByOther(p, u, v) ==
    \E q \in Users \ {p} : MatchesOf(txn[q].M, u, v) # {}

\* State of the reverse row as read by Match.objects.get in mark_as_mutual.
ReverseState(M, u, v) ==
    IF MatchesOf(M, v, u) = {} THEN "missing"
    ELSE IF \E m \in MatchesOf(M, v, u) : ~m.is_mutual THEN "pending"
    ELSE "mutual"

Goto(p, l) == pc' = [pc EXCEPT ![p] = l]

\* update_or_create, the swipe row exists: it is overwritten and committed.
UpsertUpdate(p) ==
    /\ pc[p] = "start"
    /\ SwipesOf(swipes, p, Peer(p)) # {}
    /\ \E s \in Scores :
        /\ swipes' = UpsertSwipe(swipes, p, Peer(p), "like", s)
        /\ loc' = [loc EXCEPT ![p].s = s]
    /\ Goto(p, "svc_create")
    /\ UNCHANGED <<matches, blocks, now, hist, calls, coinVars, msgVars, txn, discVars>>

\* update_or_create, no swipe row: INSERT inside the transaction.
UpsertInsert(p) ==
    /\ pc[p] = "start"
    /\ SwipesOf(swipes, p, Peer(p)) = {}
    /\ \E s \in Scores :
        /\ txn' = [txn EXCEPT ![p].S = {SwipeRow(p, Peer(p), "like", s)}]
        /\ loc' = [loc EXCEPT ![p].s = s]
    /\ Goto(p, "hook_create")
    /\ UNCHANGED <<swipes, matches, blocks, now, hist, calls, coinVars, msgVars, discVars>>

\* SwipeAction.save: Match.create_match, inside the transaction.
HookCreate(p) ==
    /\ pc[p] = "hook_create"
    /\ ~LockedByOther(p, p, Peer(p))
    /\ LET V == ViewM(p)
           W == create_match(V, p, Peer(p), loc[p].s)
       IN txn' = [txn EXCEPT ![p].M = Overlay(@, W \ V)]
    /\ Goto(p, "hook_check")
    /\ UNCHANGED <<swipes, matches, blocks, now, hist, calls, coinVars, msgVars, loc, discVars>>

\* SwipeAction.save: mutual_like_exists.
HookCheck(p) ==
    /\ pc[p] = "hook_check"
    /\ IF ReciprocalLike(ViewS(p), p, Peer(p))
       THEN Goto(p, "hook_own")
       ELSE Goto(p, "hook_commit")
    /\ UNCHANGED <<swipes, matches, blocks, now, hist, calls, coinVars, msgVars, txn, loc, discVars>>

\* mark_as_mutual, own row, inside the transaction.
HookSaveOwn(p) ==
    /\ pc[p] = "hook_own"
    /\ ~LockedByOther(p, p, Peer(p))
    /\ LET V == ViewM(p)
           W == SaveMutual(V, p, Peer(p), now)
       IN txn' = [txn EXCEPT ![p].M = Overlay(@, W \ V)]
    /\ Goto(p, "hook_get")
    /\ UNCHANGED <<swipes, matches, blocks, now, hist, calls, coinVars, msgVars, loc, discVars>>

\* mark_as_mutual, Match.objects.get of the reverse row.
HookGetReverse(p) ==
    /\ pc[p] = "hook_get"
    /\ loc' = [loc EXCEPT ![p].rev = ReverseState(ViewM(p), p, Peer(p))]
    /\ Goto(p, "hook_put")
    /\ UNCHANGED <<swipes, matches, blocks, now, hist, calls, coinVars, msgVars, txn, discVars>>

\* mark_as_mutual, the reverse row is saved or created inside the
\* transaction.
HookPutReverse(p) ==
    /\ pc[p] = "hook_put"
    /\ loc[p].rev # "missing" \/ MatchesOf(matches, Peer(p), p) = {}
    /\ ~LockedByOther(p, Peer(p), p)
    /\ LET V == ViewM(p)
           own == CHOOSE m \in MatchesOf(V, p, Peer(p)) : TRUE
           W == CASE loc[p].rev = "mutual" -> V
                  [] loc[p].rev = "pending" -> SaveMutual(V, Peer(p), p, now)
                  [] OTHER -> V \cup {MatchRow(Peer(p), p, StatusMatched,
                                               own.match_score, TRUE, now)}
       IN txn' = [txn EXCEPT ![p].M = Overlay(@, W \ V)]
    /\ Goto(p, "hook_commit")
    /\ UNCHANGED <<swipes, matches, blocks, now, hist, calls, coinVars, msgVars, loc, discVars>>

\* Match.objects.create of the reverse row meets a committed row of the same
\* pair: IntegrityError leaves update_or_create, the transaction is rolled
\* back and the request ends with the error.
HookCreateConflict(p) ==
    /\ pc[p] = "hook_put"
    /\ loc[p].rev = "missing"
    /\ MatchesOf(matches, Peer(p), p) # {}
    /\ txn' = [txn EXCEPT ![p] = NoTxn]
    /\ Goto(p, "failed")
    /\ UNCHANGED <<swipes, matches, blocks, now, hist, calls, coinVars, msgVars, loc, discVars>>

\* The transaction of update_or_create commits.
HookCommit(p) ==
    /\ pc[p] = "hook_commit"
    /\ swipes' = swipes \cup txn[p].S
    /\ matches' = Overlay(matches, txn[p].M)
    /\ txn' = [txn EXCEPT ![p] = NoTxn]
    /\ Goto(p, "svc_create")
    /\ UNCHANGED <<blocks, now, hist, calls, coinVars, msgVars, loc, discVars>>

\* create_swipe_action: cache.delete of the discovery list, then
\* Match.create_match.
SvcCreate(p) ==
    /\ pc[p] = "svc_create"
    /\ ~LockedByOther(p, p, Peer(p))
    /\ cache' = CacheDelete(cache, DiscoveryKey(p, DefaultLimit))
    /\ matches' = create_match(matches, p, Peer(p), loc[p].s)
    /\ Goto(p, "svc_check")
    /\ UNCHANGED <<swipes, blocks, now, hist, calls, coinVars, msgVars, txn, loc,
                   profiles, seen>>

\* create_swipe_action: has the other person already liked back?  Without a
\* reciprocal like the request returns no mutual match.
SvcCheck(p) ==
    /\ pc[p] = "svc_check"
    /\ IF ReciprocalLike(swipes, p, Peer(p))
       THEN /\ Goto(p, "svc_own")
            /\ loc' = [loc EXCEPT ![p].mutual = TRUE]
       ELSE /\ Goto(p, "done")
            /\ UNCHANGED loc
    /\ UNCHANGED <<swipes, matches, blocks, now, hist, calls, coinVars, msgVars, txn, discVars>>

\* mark_as_mutual, own row (from create_swipe_action, then from the view).
SaveOwn(p, at, next) ==
    /\ pc[p] = at
    /\ ~LockedByOther(p, p, Peer(p))
    /\ matches' = SaveMutual(matches, p, Peer(p), now)
    /\ Goto(p, next)
    /\ UNCHANGED <<swipes, blocks, now, hist, calls, coinVars, msgVars, txn, loc, discVars>>

GetReverse(p, at, next) ==
    /\ pc[p] = at
    /\ loc' = [loc EXCEPT ![p].rev = ReverseState(matches, p, Peer(p))]
    /\ Goto(p, next)
    /\ UNCHANGED <<swipes, matches, blocks, now, hist, calls, coinVars, msgVars, txn, discVars>>

PutReverse(p, at, next) ==
    /\ pc[p] = at
    /\ loc[p].rev # "missing" \/ MatchesOf(matches, Peer(p), p) = {}
    /\ ~LockedByOther(p, Peer(p), p)
    /\ LET own == CHOOSE m \in MatchesOf(matches, p, Peer(p)) : TRUE
       IN matches' =
            CASE loc[p].rev = "mutual" -> matches
              [] loc[p].rev = "pending" -> SaveMutual(matches, Peer(p), p, now)
              [] OTHER -> matches \cup {MatchRow(Peer(p), p, StatusMatched,
                                                 own.match_score, TRUE, now)}
    /\ Goto(p, next)
    /\ UNCHANGED <<swipes, blocks, now, hist, calls, coinVars, msgVars, txn, loc, discVars>>

\* Match.objects.create of the reverse row in autocommit mode meets a row of
\* the same pair: IntegrityError ends the request, earlier writes stay.
CreateConflict(p, at) ==
    /\ pc[p] = at
    /\ loc[p].rev = "missing"
    /\ MatchesOf(matches, Peer(p), p) # {}
    /\ Goto(p, "failed")
    /\ UNCHANGED <<swipes, matches, blocks, now, hist, calls, coinVars, msgVars, txn, loc, discVars>>

ConcTick ==
    /\ now < MaxClock
    /\ now' = now + 1
    /\ UNCHANGED <<swipes, matches, blocks, hist, calls, concVars, coinVars, msgVars, discVars>>

\* What a user did about the other user before the two requests: nothing,
\* a pass, a like that was then changed to a pass, or a like.
Priors == {"none", "pass", "like_pass", "like"}

PriorSwipes(u, k) ==
    IF k = "none" THEN {}
    ELSE {SwipeRow(u, Peer(u), IF k = "like" THEN "like" ELSE "pass", 40)}

PriorMatches(u, k) ==
    IF k \in {"like", "like_pass"}
    THEN {MatchRow(u, Peer(u), StatusPending, 40, FALSE, NullTime)}
    ELSE {}

ConcInit ==
    \E prior \in [Users -> Priors] :
        /\ \E u \in Users : prior[u] # "like"
        /\ swipes = UNION {PriorSwipes(u, prior[u]) : u \in Users}
        /\ matches = UNION {PriorMatches(u, prior[u]) : u \in Users}
        /\ blocks = {}
        /\ now = 0
        /\ hist = <<>>
        /\ calls = 0
        /\ pc = [p \in Users |-> "start"]
        /\ txn = [p \in Users |-> NoTxn]
        /\ loc = [p \in Users |-> [s |-> 40, rev |-> "missing", mutual |-> FALSE]]
        /\ wallets = {}
        /\ ledger = <<>>
        /\ obj = [h \in {} |-> {}]
        /\ last = NoOp
        /\ conversations = {}
        /\ messages = <<>>
        /\ quotas = {}
        /\ bcache = {}
        /\ inactive = {}
        /\ sent = NoSend
        /\ qobj = [h \in {} |-> {}]
        /\ profiles = <<>>
        /\ cache = {}
        /\ seen = NoSeen

ConcNext ==
    \/ \E p \in Users : UpsertUpdate(p)
    \/ \E p \in Users : UpsertInsert(p)
    \/ \E p \in Users : HookCreate(p)
    \/ \E p \in Users : HookCheck(p)
    \/ \E p \in Users : HookSaveOwn(p)
    \/ \E p \in Users : HookGetReverse(p)
    \/ \E p \in Users : HookPutReverse(p)
    \/ \E p \in Users : HookCreateConflict(p)
    \/ \E p \in Users : HookCommit(p)
    \/ \E p \in Users : SvcCreate(p)
    \/ \E p \in Users : SvcCheck(p)
    \/ \E p \in Users : SaveOwn(p, "svc_own", "svc_get")
    \/ \E p \in Users : GetReverse(p, "svc_get", "svc_put")
    \/ \E p \in Users : PutReverse(p, "svc_put", "view_own")
    \/ \E p \in Users : CreateConflict(p, "svc_put")
    \/ \E p \in Users : SaveOwn(p, "view_own", "view_get")
    \/ \E p \in Users : GetReverse(p, "view_get", "view_put")
    \/ \E p \in Users : PutReverse(p, "view_put", "done")
    \/ \E p \in Users : CreateConflict(p, "view_put")
    \/ ConcTick

SpecConc == ConcInit /\ [][ConcNext]_vars

\* ------------------------------------------------- coin wallet
(***************************************************************************)
(* SpecCoin: operations on the wallet of one user.  add_coins and          *)
(* deduct_coins do their writes inside transaction.atomic() under          *)
(* select_for_update on the wallet row, so the locked block of one call    *)
(* never overlaps that of another: each is one step on the stored row.     *)
(* What interleaves is the CoinWallet object a caller holds (obj): it is   *)
(* loaded at one time and used later, when other callers may have changed  *)
(* the stored row.  deduct_coins tests has_sufficient_balance on that      *)
(* object before it takes the lock.                                        *)
(***************************************************************************)
\* CoinWallet field defaults.
StartBalance == 10
StartEarned == 10
StartSpent == 0
StartPurchased == 0

\* Owners of the wallets explored, and the callers that hold wallet objects.
Payers == {1}
Callers == {1, 2}

\* Amounts requested (the purchase view admits amount > 0 only).
Amounts == {5, 10}

NewWallet(u) ==
    [user |-> u, balance |-> StartBalance, total_earned |-> StartEarned,
     total_spent |-> StartSpent, total_purchased |-> StartPurchased]

WalletOf(W, u) == {w \in W : w.user = u}
Stored(W, u) == CHOOSE w \in WalletOf(W, u) : TRUE
PutWallet(W, w) == {x \in W : x.user # w.user} \cup {w}

\* CoinWallet.objects.get_or_create(user=u)
GetOrCreateWallet(W, u) ==
    IF WalletOf(W, u) = {} THEN W \cup {NewWallet(u)} ELSE W

has_sufficient_balance(w, n) == w.balance >= n

\* balance is a PositiveIntegerField: the database refuses to store a
\* negative value (CHECK constraint, or UNSIGNED column in strict mode).
\* Mutation: the column accepts any value.
UnsignedOk_Unchecked(v) == TRUE
UnsignedOk(v) == v >= 0

\* Mutation: total_earned is not raised.
Credit_BalanceOnly(w, n) == [w EXCEPT !.balance = @ + n]
Credit(w, n) == [w EXCEPT !.balance = @ + n, !.total_earned = @ + n]

Debit(w, n) == [w EXCEPT !.balance = @ - n, !.total_spent = @ + n]

\* amount of the CoinTransaction of a deduction.
\* Mutation: the amount is recorded without its sign.
DebitAmount_Unsigned(n) == n
DebitAmount(n) == -n

\* CoinTransaction.objects.create(wallet=wallet, amount=..., balance_after=
\* wallet.balance), wallet being the row as just saved.
\* Mutation: balance_after is the balance before the write.
RecordTransaction_BalanceBefore(L, w, amt, type) ==
    Append(L, [wallet |-> w.user, amount |-> amt, transaction_type |-> type,
               balance_after |-> w.balance - amt])
RecordTransaction(L, w, amt, type) ==
    Append(L, [wallet |-> w.user, amount |-> amt, transaction_type |-> type,
               balance_after |-> w.balance])

Op(op, n, result) ==
    [op |-> op, amount |-> n, result |-> result,
     wallets |-> wallets, ledger |-> ledger]

\* A caller obtains the wallet object of user u (created on first access).
LoadWallet(h, u) ==
    /\ wallets' = GetOrCreateWallet(wallets, u)
    /\ obj' = [obj EXCEPT ![h] = WalletOf(wallets', u)]
    /\ UNCHANGED <<matchVars, concVars, msgVars, ledger, last, discVars>>

\* CoinWallet.add_coins on the object caller h holds.
add_coins(h, n, type) ==
    /\ calls < MaxOps
    /\ calls' = calls + 1
    /\ obj[h] # {}
    /\ LET self == CHOOSE w \in obj[h] : TRUE
           wallet == Credit(Stored(wallets, self.user), n)
       IN /\ wallets' = PutWallet(wallets, wallet)
          /\ ledger' = RecordTransaction(ledger, wallet, n, type)
          /\ obj' = [obj EXCEPT ![h] = {wallet}]
    /\ last' = Op("add", n, "ok")
    /\ UNCHANGED <<swipes, matches, blocks, now, hist, concVars, msgVars, discVars>>

\* CoinWallet.deduct_coins on the object caller h holds.
deduct_coins(h, n, type) ==
    /\ calls < MaxOps
    /\ calls' = calls + 1
    /\ obj[h] # {}
    /\ LET self == CHOOSE w \in obj[h] : TRUE
           wallet == Debit(Stored(wallets, self.user), n)
       IN IF ~has_sufficient_balance(self, n)
          THEN /\ last' = Op("deduct", n, "insufficient")
               /\ UNCHANGED <<wallets, ledger, obj>>
          ELSE IF ~UnsignedOk(wallet.balance)
          THEN /\ last' = Op("deduct", n, "db_error")
               /\ UNCHANGED <<wallets, ledger, obj>>
          ELSE /\ wallets' = PutWallet(wallets, wallet)
               /\ ledger' = RecordTransaction(ledger, wallet, DebitAmount(n), type)
               /\ obj' = [obj EXCEPT ![h] = {wallet}]
               /\ last' = Op("deduct", n, "ok")
    /\ UNCHANGED <<swipes, matches, blocks, now, hist, concVars, msgVars, discVars>>

\* CoinService.purchase_coins
purchase_coins(u, n) ==
    /\ calls < MaxOps
    /\ calls' = calls + 1
    /\ LET W == GetOrCreateWallet(wallets, u)
           wallet == Credit(Stored(W, u), n)
       IN /\ ledger' = RecordTransaction(ledger, wallet, n, "purchase")
          /\ wallets' = PutWallet(W, [wallet EXCEPT !.total_purchased = @ + n])
    /\ last' = Op("purchase", n, "ok")
    /\ UNCHANGED <<swipes, matches, blocks, now, hist, concVars, msgVars, obj, discVars>>

\* CoinService.award_coins
award_coins(u, n) ==
    /\ calls < MaxOps
    /\ calls' = calls + 1
    /\ LET W == GetOrCreateWallet(wallets, u)
           wallet == Credit(Stored(W, u), n)
       IN /\ ledger' = RecordTransaction(ledger, wallet, n, "reward")
          /\ wallets' = PutWallet(W, wallet)
    /\ last' = Op("award", n, "ok")
    /\ UNCHANGED <<swipes, matches, blocks, now, hist, concVars, msgVars, obj, discVars>>

CoinInit ==
    /\ swipes = {}
    /\ matches = {}
    /\ blocks = {}
    /\ now = 0
    /\ hist = <<>>
    /\ calls = 0
    /\ pc = [p \in {} |-> "idle"]
    /\ txn = [p \in {} |-> {}]
    /\ loc = [p \in {} |-> {}]
    /\ wallets = {}
    /\ ledger = <<>>
    /\ obj = [h \in Callers |-> {}]
    /\ last = NoOp
    /\ conversations = {}
    /\ messages = <<>>
    /\ quotas = {}
    /\ bcache = {}
    /\ inactive = {}
    /\ sent = NoSend
    /\ qobj = [h \in {} |-> {}]
    /\ profiles = <<>>
    /\ cache = {}
    /\ seen = NoSeen

CoinNext ==
    \/ \E h \in Callers, u \in Payers : LoadWallet(h, u)
    \/ \E h \in Callers, n \in Amounts : add_coins(h, n, "bonus")
    \/ \E h \in Callers, n \in Amounts : deduct_coins(h, n, "message")
    \/ \E u \in Payers, n \in Amounts : purchase_coins(u, n)
    \/ \E u \in Payers, n \in Amounts : award_coins(u, n)

SpecCoin == CoinInit /\ [][CoinNext]_vars

\* ------------------------------------------------- messaging
(***************************************************************************)
(* SpecMsg: MessageService.send_message and the requests around it.        *)
(* send_message is decorated with transaction.atomic: every row it writes  *)
(* is committed when it returns and none when it raises.  The cache        *)
(* written by Block.is_blocked is outside the transaction.                 *)
(***************************************************************************)
\* settings.FREE_MESSAGES_LIMIT and settings.MESSAGE_COIN_COST
FREE_MESSAGES_LIMIT == 3
MESSAGE_COIN_COST == 1

\* Longest content send_message accepts.
MaxContent == 1000

\* Arguments are model instances: the class is part of the value.
UserObj(u) == [kind |-> "User", id |-> u]
DateObj(d) == [kind |-> "date", day |-> d]
ConvRow(a, b) ==
    [kind |-> "Conversation", participant_1 |-> a, participant_2 |-> b]
QuotaRow(u, d, t, f, p) ==
    [kind |-> "DailyMessageQuota", user |-> u, date |-> d,
     total_messages_sent |-> t, free_messages_used |-> f,
     paid_messages_sent |-> p]

\* A message body, by len(content) and len(content.strip()): empty, blank,
\* ordinary, longer than the maximum.
Contents ==
    {[raw |-> 0, stripped |-> 0], [raw |-> 2, stripped |-> 0],
     [raw |-> 5, stripped |-> 5], [raw |-> 1001, stripped |-> 1001]}

Lower(a, b) == IF a <= b THEN a ELSE b
Higher(a, b) == IF a <= b THEN b ELSE a

BlockKey(a, b) == <<Lower(a, b), Higher(a, b)>>
BlockRowExists(B, a, b) == <<a, b>> \in B \/ <<b, a>> \in B

\* Block.is_blocked: the cached answer when there is one, else the query,
\* whose answer is cached.
is_blocked(B, C, a, b) ==
    LET hit == CacheGet(C, BlockKey(a, b))
        found == BlockRowExists(B, a, b)
    IN IF hit # {}
       THEN [value |-> (CHOOSE e \in hit : TRUE).value, cache |-> C]
       ELSE [value |-> found,
             cache |-> C \cup {[key |-> BlockKey(a, b), value |-> found]}]

\* Mutation: a user may message themselves.
can_send_message_NoSelfCheck(B, C, I, s, r) ==
    IF s \in I \/ r \in I
    THEN [ok |-> FALSE, reason |-> "inactive", cache |-> C]
    ELSE LET b == is_blocked(B, C, s, r)
         IN [ok |-> ~b.value, reason |-> IF b.value THEN "block" ELSE "",
             cache |-> b.cache]

\* MessageService.can_send_message
can_send_message(B, C, I, s, r) ==
    IF s = r
    THEN [ok |-> FALSE, reason |-> "self", cache |-> C]
    ELSE IF s \in I \/ r \in I
    THEN [ok |-> FALSE, reason |-> "inactive", cache |-> C]
    ELSE LET b == is_blocked(B, C, s, r)
         IN [ok |-> ~b.value, reason |-> IF b.value THEN "block" ELSE "",
             cache |-> b.cache]

\* Conversation.get_or_create_conversation
get_or_create_conversation(CV, a, b) ==
    LET row == ConvRow(Lower(a, b), Higher(a, b))
    IN [conversations |-> CV \cup {row}, row |-> row]

QuotasOf(Q, u, d) == {q \in Q : q.user = u /\ q.date = d}

\* DailyMessageQuota.get_quota(user, date_obj=None).  The lookup
\* get_or_create(user=user, date=date_obj) raises when user is not a User
\* instance or date_obj is not a date.
get_quota(Q, user, date_obj, today) ==
    LET d == IF date_obj = None THEN DateObj(today) ELSE date_obj
        key == [user |-> user, date |-> d]
    IN IF user.kind # "User" \/ d.kind # "date"
       THEN [raised |-> TRUE, quotas |-> Q, row |-> None, key |-> key]
       ELSE IF QuotasOf(Q, user.id, d.day) # {}
       THEN [raised |-> FALSE, quotas |-> Q,
             row |-> CHOOSE q \in QuotasOf(Q, user.id, d.day) : TRUE,
             key |-> key]
       ELSE [raised |-> FALSE,
             quotas |-> Q \cup {QuotaRow(user.id, d.day, 0, 0, 0)},
             row |-> QuotaRow(user.id, d.day, 0, 0, 0), key |-> key]

has_free_messages_remaining(q) == q.free_messages_used < FREE_MESSAGES_LIMIT

\* Mutation: total_messages_sent is not counted.
Incremented_BucketOnly(q, is_paid) ==
    IF is_paid
    THEN [q EXCEPT !.paid_messages_sent = @ + 1]
    ELSE [q EXCEPT !.free_messages_used = @ + 1]

\* DailyMessageQuota.increment, the fields of the object after the call.
Incremented(q, is_paid) ==
    IF is_paid
    THEN [q EXCEPT !.total_messages_sent = @ + 1, !.paid_messages_sent = @ + 1]
    ELSE [q EXCEPT !.total_messages_sent = @ + 1, !.free_messages_used = @ + 1]

\* save(update_fields=[the three counters]) of a quota object.
SaveQuota(Q, q) ==
    {IF x.user = q.user /\ x.date = q.date
     THEN [x EXCEPT !.total_messages_sent = q.total_messages_sent,
                    !.free_messages_used = q.free_messages_used,
                    !.paid_messages_sent = q.paid_messages_sent]
     ELSE x : x \in Q}

\* Mutation: the quota is looked up for the sender.
QuotaLookup_BySender(Q, sender, conversation, today) ==
    get_quota(Q, sender, None, today)

\* The call DailyMessageQuota.get_quota(conversation, sender) made by
\* calculate_message_cost and by step 8 of send_message.
QuotaLookup(Q, sender, conversation, today) ==
    get_quota(Q, conversation, sender, today)

\* MessageService.calculate_message_cost
calculate_message_cost(Q, sender, conversation, today) ==
    LET q == QuotaLookup(Q, sender, conversation, today)
    IN [raised |-> q.raised, quotas |-> q.quotas, key |-> q.key,
        cost |-> IF q.raised THEN 0
                 ELSE IF has_free_messages_remaining(q.row) THEN 0
                 ELSE MESSAGE_COIN_COST]

\* How a request ended and the tables it leaves.
Outcome(result, reason, step, cost, key, CV, MS, Q, W, L) ==
    [result |-> result, reason |-> reason, step |-> step, cost |-> cost,
     key |-> key, conversations |-> CV, messages |-> MS, quotas |-> Q,
     wallets |-> W, ledger |-> L]

\* An exception leaves the atomic block: the tables are as at its entry.
Raised(result, reason, step, key) ==
    Outcome(result, reason, step, 0, key,
            conversations, messages, quotas, wallets, ledger)

\* send_message step 5: the coins of a paid message are taken from the
\* sender's wallet, read under select_for_update (or created when absent).
PayForMessage(W, L, s, cost) ==
    IF cost = 0
    THEN [ok |-> TRUE, wallets |-> W, ledger |-> L]
    ELSE LET W1 == GetOrCreateWallet(W, s)
             self == Stored(W1, s)
             wallet == Debit(self, cost)
         IN IF ~has_sufficient_balance(self, cost)
            THEN [ok |-> FALSE, wallets |-> W, ledger |-> L]
            ELSE [ok |-> TRUE, wallets |-> PutWallet(W1, wallet),
                  ledger |-> RecordTransaction(L, wallet, DebitAmount(cost),
                                               "message")]

\* send_message steps 2 to 8, the part after the permission check.
SendTxn(s, r, content) ==
    IF content.raw = 0 \/ content.stripped = 0
    THEN Raised("invalid", "empty", 2, NoKey)
    ELSE IF content.raw > MaxContent
    THEN Raised("invalid", "too_long", 2, NoKey)
    ELSE
    LET cv == get_or_create_conversation(conversations, s, r)
        c == calculate_message_cost(quotas, UserObj(s), cv.row, now)
    IN IF c.raised
       THEN Raised("error", "quota_lookup", 4, c.key)
       ELSE
       LET pay == PayForMessage(wallets, ledger, s, c.cost)
           MS == Append(messages, [conversation |-> cv.row, sender |-> s,
                                   receiver |-> r, coin_cost |-> c.cost])
           q == QuotaLookup(c.quotas, UserObj(s), cv.row, now)
       IN IF ~pay.ok
          THEN Raised("invalid", "insufficient", 5, c.key)
          ELSE IF q.raised
          THEN Raised("error", "quota_lookup", 8, q.key)
          ELSE Outcome("ok", "", 8, c.cost, c.key, cv.conversations, MS,
                       SaveQuota(q.quotas, Incremented(q.row, c.cost > 0)),
                       pay.wallets, pay.ledger)

\* MessageService.send_message(sender, receiver, content), the whole call
\* inside transaction.atomic.
send_message(s, r, content) ==
    /\ calls < MaxCalls
    /\ calls' = calls + 1
    /\ LET p == can_send_message(blocks, bcache, inactive, s, r)
           o == IF p.ok THEN SendTxn(s, r, content)
                ELSE Raised("denied", p.reason, 1, NoKey)
       IN /\ bcache' = p.cache
          /\ conversations' = o.conversations
          /\ messages' = o.messages
          /\ quotas' = o.quotas
          /\ wallets' = o.wallets
          /\ ledger' = o.ledger
          /\ sent' = [seq |-> calls', op |-> "send", sender |-> s,
                      receiver |-> r, content |-> content,
                      result |-> o.result,
                      reason |-> o.reason, step |-> o.step, cost |-> o.cost,
                      key |-> o.key]
    /\ UNCHANGED <<swipes, matches, blocks, now, hist, concVars, obj, last,
                   inactive, qobj, discVars>>

\* MessageViewSet.check_cost.  The receiver is looked up with
\* User.objects.get(uuid=receiver_uuid); User (users/models.py) has the
\* primary key id and no field uuid, so the lookup raises FieldError, which
\* the handler does not catch: the request ends before the conversation
\* get_or_create and the cost calculation.
check_cost(u, r) ==
    /\ calls < MaxCalls
    /\ calls' = calls + 1
    /\ sent' = [seq |-> calls', op |-> "check_cost", sender |-> u,
                receiver |-> r, content |-> NoContent,
                result |-> "error", reason |-> "receiver_lookup",
                step |-> 0, cost |-> 0, key |-> NoKey]
    /\ UNCHANGED <<swipes, matches, blocks, now, hist, concVars, coinVars,
                   conversations, messages, quotas, bcache, inactive, qobj,
                   discVars>>

\* The cache entry of a block check expires (timeout 300).
ExpireBlockCheck(k) ==
    /\ CacheGet(bcache, k) # {}
    /\ bcache' = {e \in bcache : e.key # k}
    /\ UNCHANGED <<matchVars, concVars, coinVars, conversations, messages,
                   quotas, inactive, sent, qobj, discVars>>

\* An account is deactivated (User.is_active set to False).
deactivate(u) ==
    /\ u \notin inactive
    /\ inactive' = inactive \cup {u}
    /\ UNCHANGED <<matchVars, concVars, coinVars, conversations, messages,
                   quotas, bcache, sent, qobj, discVars>>

MsgNext ==
    \/ \E s \in Users, r \in Users, content \in Contents : send_message(s, r, content)
    \/ \E u \in Users, r \in Users : check_cost(u, r)
    \/ \E u \in Users : \E b \in Others(u) : block_user(u, b)
    \/ \E a \in Users, b \in Users : ExpireBlockCheck(<<a, b>>)
    \/ \E u \in Users : deactivate(u)

SpecMsg == Init /\ [][MsgNext]_vars

\* ------------------------------------------------- daily quota
(***************************************************************************)
(* SpecQuota: callers obtain the quota object of a user for today with     *)
(* DailyMessageQuota.get_quota(user) and call increment on it.  increment  *)
(* adds to the fields of the object in memory and saves the three          *)
(* counters; it takes no lock, so the object may be older than the row.    *)
(* hist counts the calls of increment(is_paid=False) per user and day.     *)
(***************************************************************************)
\* One more call of increment(is_paid=False) on the quota with key k; free
\* tells whether the caller's object had free messages remaining.
Tally(H, k, free) ==
    LET old == IF k \in DOMAIN H THEN H[k] ELSE [calls |-> 0, free |-> 0]
        new == [calls |-> old.calls + 1,
                free |-> old.free + (IF free THEN 1 ELSE 0)]
    IN [x \in DOMAIN H \cup {k} |-> IF x = k THEN new ELSE H[x]]

LoadQuota(h, u) ==
    /\ LET q == get_quota(quotas, UserObj(u), None, now)
       IN /\ quotas' = q.quotas
          /\ qobj' = [qobj EXCEPT ![h] = {q.row}]
    /\ UNCHANGED <<matchVars, concVars, coinVars, conversations, messages,
                   bcache, inactive, sent, discVars>>

\* DailyMessageQuota.increment on the object caller h holds.
increment(h, is_paid) ==
    /\ calls < MaxOps
    /\ calls' = calls + 1
    /\ qobj[h] # {}
    /\ LET self == Incremented(CHOOSE q \in qobj[h] : TRUE, is_paid)
       IN /\ quotas' = SaveQuota(quotas, self)
          /\ qobj' = [qobj EXCEPT ![h] = {self}]
          /\ hist' = IF is_paid THEN hist
                      ELSE Tally(hist, <<self.user, self.date>>,
                                 \E q \in qobj[h] : has_free_messages_remaining(q))
    /\ UNCHANGED <<swipes, matches, blocks, now, concVars, coinVars,
                   conversations, messages, bcache, inactive, sent, discVars>>

\* date.today() moves to the next day.
NextDay ==
    /\ now < MaxClock
    /\ now' = now + 1
    /\ UNCHANGED <<swipes, matches, blocks, hist, calls, concVars, coinVars,
                   msgVars, discVars>>

QuotaInit ==
    /\ swipes = {}
    /\ matches = {}
    /\ blocks = {}
    /\ now = 0
    /\ hist = <<>>
    /\ calls = 0
    /\ pc = [p \in {} |-> "idle"]
    /\ txn = [p \in {} |-> {}]
    /\ loc = [p \in {} |-> {}]
    /\ wallets = {}
    /\ ledger = <<>>
    /\ obj = [h \in {} |-> {}]
    /\ last = NoOp
    /\ conversations = {}
    /\ messages = <<>>
    /\ quotas = {}
    /\ bcache = {}
    /\ inactive = {}
    /\ sent = NoSend
    /\ qobj = [h \in Callers |-> {}]
    /\ profiles = <<>>
    /\ cache = {}
    /\ seen = NoSeen

QuotaNext ==
    \/ \E h \in Callers, u \in Users : LoadQuota(h, u)
    \/ \E h \in Callers, is_paid \in BOOLEAN : increment(h, is_paid)
    \/ NextDay

SpecQuota == QuotaInit /\ [][QuotaNext]_vars

\* ------------------------------------------------- compatibility scores
(***************************************************************************)
(* The score functions of MatchingService.  Python evaluates the weighted  *)
(* scores in double precision and truncates with int(); the operators      *)
(* compute the same value with integers: the exact quotient, less one at   *)
(* the inputs where the double product falls just below an exact integer.  *)
(***************************************************************************)
\* Profile.age is None when birth_date is unset; only its truth value is used.
NoAge == 0

\* Youngest age a preference may name (validators of min_age_preference).
MinAge == 18

\* Oldest age explored.
MaxAge == 21

\* Number of distinct interests explored.
MaxInterests == 3

\* importance: 1 to 5
Importance == 1..5

Ages == MinAge..MaxAge
Interests == 1..MaxInterests

\* Profile.relationship_goal: blank, the four RELATIONSHIP_GOALS, and 'unsure',
\* which calculate_relationship_goal_score also tests for.
Goals == {"", "casual", "serious", "friendship", "marriage", "unsure"}

Abs(x) == IF x < 0 THEN -x ELSE x

\* max(0, min(100, x))
Clamp(x) == IF x < 0 THEN 0 ELSE IF x > 100 THEN 100 ELSE x

\* <<2 * age_diff, range_size, importance>> at which
\* (100 - age_diff / range_size * 100) * (importance / 5) evaluates in double
\* precision to just below its exact integer value (range_size up to 12).
AgeRoundedDown == {<<10, 12, 3>>}

\* <<intersection, union, importance>> at which
\* (intersection / union * 100) * (importance / 5) evaluates in double
\* precision to just below its exact integer value (union up to 8).
InterestRoundedDown ==
    {<<1, 3, 3>>, <<2, 3, 3>>, <<1, 6, 3>>, <<2, 6, 3>>, <<4, 6, 3>>}

\* int() of a non-negative double whose exact value is num / den.
Truncated(num, den, roundedDown) ==
    IF roundedDown THEN (num \div den) - 1 ELSE num \div den

\* Mutation: a target outside the preferred range is scored like one inside.
calculate_age_score_NoRangeCheck(user_age, target_age, min_age, max_age, importance) ==
    LET range_size == max_age - min_age
        twice_diff == Abs(2 * target_age - (min_age + max_age))
    IN IF range_size = 0
       THEN IF twice_diff = 0 THEN 100 ELSE 0
       ELSE Clamp((importance * (200 * range_size - 100 * twice_diff))
                      \div (10 * range_size))

\* MatchingService.calculate_age_score
calculate_age_score(user_age, target_age, min_age, max_age, importance) ==
    IF target_age < min_age \/ target_age > max_age
    THEN 0
    ELSE LET range_size == max_age - min_age
             \* ideal_age = (min_age + max_age) / 2; twice the difference
             twice_diff == Abs(2 * target_age - (min_age + max_age))
         IN IF range_size = 0
            THEN IF twice_diff = 0 THEN 100 ELSE 0
            ELSE Clamp(Truncated(importance * (200 * range_size - 100 * twice_diff),
                                 10 * range_size,
                                 <<twice_diff, range_size, importance>>
                                     \in AgeRoundedDown))

\* MatchingService.calculate_interest_score on two collections of ids.
calculate_interest_score(user_interests, target_interests, importance) ==
    IF user_interests = {} \/ target_interests = {}
    THEN 50
    ELSE LET intersection == Cardinality(user_interests \cap target_interests)
             union == Cardinality(user_interests \cup target_interests)
         IN IF union = 0
            THEN 50
            ELSE Clamp(Truncated(intersection * 100 * importance, union * 5,
                                 <<intersection, union, importance>>
                                     \in InterestRoundedDown))

\* raw_score of calculate_relationship_goal_score
GoalRawScore(user_goal, target_goal) ==
    IF user_goal = target_goal THEN 100
    ELSE IF user_goal = "unsure" \/ target_goal = "unsure" THEN 75
    ELSE IF \/ (user_goal = "serious" /\ target_goal = "casual")
            \/ (user_goal = "casual" /\ target_goal = "serious") THEN 20
    ELSE 50

\* MatchingService.calculate_relationship_goal_score; raw_score * (importance / 5)
\* is exact in double precision for the four raw scores.
calculate_relationship_goal_score(user_goal, target_goal, importance) ==
    IF user_goal = "" \/ target_goal = ""
    THEN 50
    ELSE Clamp(Truncated(GoalRawScore(user_goal, target_goal) * importance, 5,
                         FALSE))

\* A row of profiles, with the ids of the interests attached to it.
ProfileRow(u, age, mn, mx, ints, goal) ==
    [user |-> u, age |-> age, min_age_preference |-> mn,
     max_age_preference |-> mx, interests |-> ints, relationship_goal |-> goal]

\* A row of user_preferences.
PreferenceRow(a, i, g) ==
    [age_importance |-> a, interests_importance |-> i,
     relationship_goal_importance |-> g]

\* profile.interests.all(): the ProfileInterest rows of the profile, one per
\* (profile, interest); calculate_interest_score takes the id of each row.
InterestRowIds(profile) == {<<profile.user, i>> : i \in profile.interests}

\* Mutation: the weighted scores are summed, neither averaged nor clamped.
calculate_match_score_WeightedSum(preferences, user_profile, target_profile) ==
    calculate_interest_score(InterestRowIds(user_profile),
                             InterestRowIds(target_profile),
                             preferences.interests_importance)
        * preferences.interests_importance
    + calculate_relationship_goal_score(user_profile.relationship_goal,
                                        target_profile.relationship_goal,
                                        preferences.relationship_goal_importance)
        * preferences.relationship_goal_importance

\* Mutation: the age factor is counted for a target without age too.
calculate_match_score_AgeAlways(preferences, user_profile, target_profile) ==
    LET age == calculate_age_score(25, target_profile.age,
                                   user_profile.min_age_preference,
                                   user_profile.max_age_preference,
                                   preferences.age_importance)
        interests == calculate_interest_score(
                         InterestRowIds(user_profile),
                         InterestRowIds(target_profile),
                         preferences.interests_importance)
        goals == calculate_relationship_goal_score(
                     user_profile.relationship_goal,
                     target_profile.relationship_goal,
                     preferences.relationship_goal_importance)
    IN Clamp((age * preferences.age_importance
              + interests * preferences.interests_importance
              + goals * preferences.relationship_goal_importance)
             \div (preferences.age_importance + preferences.interests_importance
                   + preferences.relationship_goal_importance))

\* MatchingService.calculate_match_score, given the preferences of the user
\* and the two profiles.
calculate_match_score(preferences, user_profile, target_profile) ==
    LET hasAge == target_profile.age # NoAge
        age == calculate_age_score(
                   IF user_profile.age # NoAge THEN user_profile.age ELSE 25,
                   target_profile.age,
                   user_profile.min_age_preference,
                   user_profile.max_age_preference,
                   preferences.age_importance)
        interests == calculate_interest_score(
                         InterestRowIds(user_profile),
                         InterestRowIds(target_profile),
                         preferences.interests_importance)
        goals == calculate_relationship_goal_score(
                     user_profile.relationship_goal,
                     target_profile.relationship_goal,
                     preferences.relationship_goal_importance)
        total_weighted_score ==
            (IF hasAge THEN age * preferences.age_importance ELSE 0)
            + interests * preferences.interests_importance
            + goals * preferences.relationship_goal_importance
        total_weight ==
            (IF hasAge THEN preferences.age_importance ELSE 0)
            + preferences.interests_importance
            + preferences.relationship_goal_importance
    IN IF total_weight = 0
       THEN 50
       ELSE Clamp(total_weighted_score \div total_weight)

(***************************************************************************)
(* SpecScore: one call of a score function.  The initial state holds the   *)
(* arguments, the action applies the function and records what it returns. *)
(***************************************************************************)
\* Age ranges with min <= max, the zero-width ranges included.
AgeRanges == {r \in Ages \X Ages : r[1] <= r[2]}

\* Target ages: every age of a range, one below, one above.
TargetAges == (MinAge - 1)..(MaxAge + 1)

\* The profiles and preferences calculate_match_score is called on: the
\* narrowest and the widest range, a target without age, outside and inside
\* the range, blank, equal, opposed and unrelated goals, and every
\* combination of the three importances.
UserProfiles ==
    {ProfileRow(1, a, r[1], r[2], ints, g) :
        a \in {NoAge, MinAge}, r \in {<<MinAge, MinAge>>, <<MinAge, MaxAge>>},
        ints \in {{}, {1}}, g \in {"", "casual", "unsure"}}

TargetProfiles ==
    {ProfileRow(u, a, MinAge, MaxAge, ints, g) :
        u \in {1, 2}, a \in {NoAge, MinAge - 1, MinAge, MaxAge},
        ints \in {{}, {1}}, g \in {"", "casual", "serious"}}

PreferenceRows ==
    {PreferenceRow(a, i, g) : a \in Importance, i \in Importance, g \in Importance}

AgeCalls ==
    {[op |-> "age", target_age |-> t, min_age |-> r[1], max_age |-> r[2],
      importance |-> n, done |-> FALSE, result |-> 0] :
        t \in TargetAges, r \in AgeRanges, n \in Importance}

InterestCalls ==
    {[op |-> "interests", user_interests |-> a, target_interests |-> b,
      importance |-> n, done |-> FALSE, result |-> 0] :
        a \in SUBSET Interests, b \in SUBSET Interests, n \in Importance}

GoalCalls ==
    {[op |-> "goals", user_goal |-> a, target_goal |-> b,
      importance |-> n, done |-> FALSE, result |-> 0] :
        a \in Goals, b \in Goals, n \in Importance}

OverallCalls ==
    {[op |-> "overall", preferences |-> q, user_profile |-> a,
      target_profile |-> b, done |-> FALSE, result |-> 0] :
        q \in PreferenceRows, a \in UserProfiles, b \in TargetProfiles}

Returned(r) ==
    /\ seen' = [seen EXCEPT !.done = TRUE, !.result = r]
    /\ UNCHANGED <<matchVars, concVars, coinVars, msgVars, profiles, cache>>

AgeScore ==
    /\ seen.op = "age" /\ ~seen.done
    /\ Returned(calculate_age_score(25, seen.target_age, seen.min_age,
                                    seen.max_age, seen.importance))

InterestScore ==
    /\ seen.op = "interests" /\ ~seen.done
    /\ Returned(calculate_interest_score(seen.user_interests,
                                         seen.target_interests, seen.importance))

GoalScore ==
    /\ seen.op = "goals" /\ ~seen.done
    /\ Returned(calculate_relationship_goal_score(seen.user_goal,
                                                  seen.target_goal,
                                                  seen.importance))

OverallScore ==
    /\ seen.op = "overall" /\ ~seen.done
    /\ Returned(calculate_match_score(seen.preferences, seen.user_profile,
                                      seen.target_profile))

ScoreInit ==
    /\ swipes = {}
    /\ matches = {}
    /\ blocks = {}
    /\ now = 0
    /\ hist = <<>>
    /\ calls = 0
    /\ pc = [p \in {} |-> "idle"]
    /\ txn = [p \in {} |-> {}]
    /\ loc = [p \in {} |-> {}]
    /\ wallets = {}
    /\ ledger = <<>>
    /\ obj = [h \in {} |-> {}]
    /\ last = NoOp
    /\ conversations = {}
    /\ messages = <<>>
    /\ quotas = {}
    /\ bcache = {}
    /\ inactive = {}
    /\ sent = NoSend
    /\ qobj = [h \in {} |-> {}]
    /\ profiles = <<>>
    /\ cache = {}
    /\ seen \in AgeCalls \cup InterestCalls \cup GoalCalls \cup OverallCalls

ScoreNext == AgeScore \/ InterestScore \/ GoalScore \/ OverallScore

SpecScore == ScoreInit /\ [][ScoreNext]_vars

\* ------------------------------------------------- discovery
(***************************************************************************)
(* SpecDisc: one member asks for potential matches, swipes on a second     *)
(* member, and blocks or is blocked by a third.                            *)
(* get_potential_matches answers from the cache entry of (user, limit)     *)
(* when there is one; otherwise it filters, pulls 3 * limit rows in the    *)
(* order the database returns them (the query has no ORDER BY), scores,    *)
(* sorts, truncates and caches the list for 300 seconds.                   *)
(***************************************************************************)
\* settings.MIN_MATCH_SCORE, read at the comparison of a score with the
\* threshold; the settings module that assigns it is not among the sources,
\* and 30 stands for a threshold that the candidates' scores reach.
MIN_MATCH_SCORE == 30

\* date.today().year
CurrentYear == 2026

\* Profile.birth_date is NULL.
NoBirthYear == 0

Members == {1, 2, 3}

\* The member whose requests are followed.
Requester == 1

\* The member the requester swipes on, and the member who blocks the
\* requester or is blocked by them.
SwipeTargets == {2}
BlockPeers == {3}

\* Values of the limit argument.
Limits == {1, DefaultLimit}

\* A profile with the columns the discovery filters read.
MemberProfile(u, gender, looking, birth_year, age, completion, ints, goal) ==
    [user |-> u, age |-> age, min_age_preference |-> MinAge,
     max_age_preference |-> MaxAge, interests |-> ints,
     relationship_goal |-> goal, gender |-> gender,
     looking_for_gender |-> looking, birth_year |-> birth_year,
     profile_completion_percentage |-> completion]

\* UserPreference with the field defaults; hide_seen_profiles is an integer
\* column (default True).
MemberPreference(hide) ==
    [age_importance |-> 2, interests_importance |-> 4,
     relationship_goal_importance |-> 5, hide_seen_profiles |-> hide,
     min_profile_completion |-> 50]

\* calculate_match_score(user, c) on the stored profiles.
ScoreOf(P, user, c) ==
    calculate_match_score(P.preferences[user], P.profile[user], P.profile[c])

\* The rows left by the filters of get_potential_matches.
HardFiltered(P, I, B, S, user) ==
    LET user_profile == P.profile[user]
        preferences == P.preferences[user]
        max_birth_year == CurrentYear - user_profile.min_age_preference
        min_birth_year == CurrentYear - user_profile.max_age_preference - 1
    IN {c \in DOMAIN P.profile :
          /\ c \notin I
          /\ c # user
          /\ user_profile.looking_for_gender # ""
                => P.profile[c].gender = user_profile.looking_for_gender
          /\ user_profile.age # NoAge
                => /\ P.profile[c].birth_year # NoBirthYear
                   /\ P.profile[c].birth_year >= min_birth_year
                   /\ P.profile[c].birth_year <= max_birth_year
          /\ P.profile[c].profile_completion_percentage
                >= preferences.min_profile_completion
          /\ ~BlockRowExists(B, user, c)
          /\ preferences.hide_seen_profiles # 0 => SwipesOf(S, user, c) = {}}

\* potential_matches[:limit * 3]: any limit * 3 of the rows.
Pulled(pool, limit) ==
    {Q \in SUBSET pool :
        Cardinality(Q) = IF Cardinality(pool) < 3 * limit
                         THEN Cardinality(pool) ELSE 3 * limit}

\* The pulled rows whose score reaches the threshold.
Kept(P, user, Q) == {c \in Q : ScoreOf(P, user, c) >= MIN_MATCH_SCORE}

\* Every arrangement of the members of K in a sequence.
Arrangements(K) ==
    {f \in [1..Cardinality(K) -> K] : \A i, j \in DOMAIN f : f[i] = f[j] => i = j}

\* Mutation: the scored list is not sorted.
Rankings_Unsorted(P, user, K) == Arrangements(K)

\* scored_matches.sort(key=score, reverse=True): highest score first; rows
\* of equal score stay in the order they were pulled, which is arbitrary.
Rankings(P, user, K) ==
    {f \in Arrangements(K) :
        \A i, j \in DOMAIN f :
            i < j => ScoreOf(P, user, f[i]) >= ScoreOf(P, user, f[j])}

\* scored_matches[:limit]
Take(f, limit) == SubSeq(f, 1, IF Len(f) < limit THEN Len(f) ELSE limit)

\* MatchingService.get_potential_matches: the possible outcomes of a call.
get_potential_matches(P, I, B, S, C, user, limit) ==
    LET hit == CacheGet(C, DiscoveryKey(user, limit))
        pool == HardFiltered(P, I, B, S, user)
        lists == UNION {{Take(f, limit) : f \in Rankings(P, user, Kept(P, user, Q))} :
                        Q \in Pulled(pool, limit)}
    IN IF hit # {}
       THEN {[hit |-> TRUE, result |-> (CHOOSE e \in hit : TRUE).value, cache |-> C]}
       ELSE {[hit |-> FALSE, result |-> r,
              cache |-> CacheSet(C, DiscoveryKey(user, limit), r)] : r \in lists}

\* A call of get_potential_matches(u, limit).
Discover(u, limit) ==
    /\ calls < MaxCalls
    /\ calls' = calls + 1
    /\ \E o \in get_potential_matches(profiles, inactive, blocks, swipes, cache,
                                      u, limit) :
        /\ cache' = o.cache
        /\ seen' = [op |-> "discover", seq |-> calls', user |-> u,
                    limit |-> limit, hit |-> o.hit, result |-> o.result]
    /\ UNCHANGED <<swipes, matches, blocks, now, hist, concVars, coinVars,
                   msgVars, profiles>>

\* A cached discovery list reaches its timeout (300).
ExpireDiscovery(u, limit) ==
    /\ CacheGet(cache, DiscoveryKey(u, limit)) # {}
    /\ cache' = CacheDelete(cache, DiscoveryKey(u, limit))
    /\ UNCHANGED <<matchVars, concVars, coinVars, msgVars, profiles, seen>>

\* The requester looks for women aged 18 to 21 and hides seen profiles or
\* not. Both candidates share the requester's goal. Candidate 2 has an
\* interest row (interest score 0: the rows of two profiles never have a
\* common id); candidate 3 has none (interest score 50) and is 19 or too old.
Worlds ==
    {[profile |-> (1 :> MemberProfile(1, "M", "F", CurrentYear - 19, 19, 100,
                                      {1}, "casual")
                   @@ 2 :> MemberProfile(2, "F", "M", CurrentYear - 19, 19, 100,
                                         {1}, "casual")
                   @@ 3 :> MemberProfile(3, "F", "M", y, CurrentYear - y, 100,
                                         {}, "casual")),
      preferences |-> [u \in Members |->
                          MemberPreference(IF u = Requester THEN hide ELSE 1)],
      total_matches |-> [u \in Members |-> 0]] :
        y \in {CurrentYear - 19, CurrentYear - 30}, hide \in {0, 1}}

DiscInit ==
    /\ swipes = {}
    /\ matches = {}
    /\ blocks = {}
    /\ now = 0
    /\ hist = <<>>
    /\ calls = 0
    /\ pc = [p \in {} |-> "idle"]
    /\ txn = [p \in {} |-> {}]
    /\ loc = [p \in {} |-> {}]
    /\ wallets = {}
    /\ ledger = <<>>
    /\ obj = [h \in {} |-> {}]
    /\ last = NoOp
    /\ conversations = {}
    /\ messages = <<>>
    /\ quotas = {}
    /\ bcache = {}
    /\ inactive = {}
    /\ sent = NoSend
    /\ qobj = [h \in {} |-> {}]
    /\ profiles \in Worlds
    /\ cache = {}
    /\ seen = NoSeen

DiscNext ==
    \/ \E limit \in Limits : Discover(Requester, limit)
    \/ \E t \in SwipeTargets, a \in {"like", "pass"} : swipe(Requester, t, a)
    \/ \E b \in BlockPeers : block_user(Requester, b) \/ block_user(b, Requester)
    \/ \E limit \in Limits : ExpireDiscovery(Requester, limit)

SpecDisc == DiscInit /\ [][DiscNext]_vars

\* ------------------------------------------------- concurrent conversations
(***************************************************************************)
(* SpecConv: each member makes one request for a conversation with another *)
(* member, all at once and starting from an empty table.  A request is     *)
(* either a call of Conversation.get_or_create_conversation in autocommit  *)
(* mode or a send_message, whose statements run in one transaction.  The   *)
(* SELECT and the INSERT of get_or_create are separate steps; a SELECT     *)
(* sees the committed rows and the request's own; an INSERT waits while    *)
(* another transaction holds the same row uncommitted.  Callers pass two   *)
(* different users, as send_message does.                                  *)
(***************************************************************************)
\* A message body that passes the content checks.
Ordinary == [raw |-> 5, stripped |-> 5]

\* Mutation: the participants are kept in the order given.
Canonical_AsGiven(a, b) == ConvRow(a, b)

\* The swap of get_or_create_conversation and of Conversation.save: the
\* lower id is participant_1.
Canonical(a, b) == ConvRow(Lower(a, b), Higher(a, b))

\* The row a request of p looks up and inserts.
Wanted(p) == Canonical(p, loc[p].peer)

\* Conversation.save
Conversation_save(row) == Canonical(row.participant_1, row.participant_2)

\* Another request holds the row uncommitted.
HeldByOther(p, row) == \E q \in Members \ {p} : row \in txn[q]

\* Where a request goes once it has its conversation.
AfterConversation(p) == IF loc[p].mode = "send" THEN "cost" ELSE "done"

\* A direct call of Conversation.get_or_create_conversation(p, r).
ApiBegin(p, r) ==
    /\ pc[p] = "start"
    /\ loc' = [loc EXCEPT ![p] = [mode |-> "api", peer |-> r]]
    /\ Goto(p, "conv_get")
    /\ UNCHANGED <<matchVars, txn, coinVars, msgVars, discVars>>

\* send_message(p, r, content), steps 1 and 2: the transaction opens, the
\* permission and content checks run.
SendBegin(p, r) ==
    /\ pc[p] = "start"
    /\ LET c == can_send_message(blocks, bcache, inactive, p, r)
       IN /\ bcache' = c.cache
          /\ Goto(p, IF c.ok THEN "conv_get" ELSE "failed")
    /\ loc' = [loc EXCEPT ![p] = [mode |-> "send", peer |-> r]]
    /\ UNCHANGED <<matchVars, txn, coinVars, conversations, messages, quotas,
                   inactive, sent, qobj, discVars>>

\* get_or_create: the SELECT.
ConvSelect(p) ==
    /\ pc[p] = "conv_get"
    /\ Goto(p, IF Wanted(p) \in conversations \cup txn[p]
               THEN AfterConversation(p) ELSE "conv_insert")
    /\ UNCHANGED <<matchVars, txn, loc, coinVars, msgVars, discVars>>

\* get_or_create: the INSERT of the saved row, committed at once in
\* autocommit mode and held in the transaction of a send_message.
ConvInsert(p) ==
    /\ pc[p] = "conv_insert"
    /\ LET row == Conversation_save(Wanted(p))
       IN /\ row \notin conversations
          /\ ~HeldByOther(p, row)
          /\ IF loc[p].mode = "send"
             THEN /\ txn' = [txn EXCEPT ![p] = @ \cup {row}]
                  /\ UNCHANGED conversations
             ELSE /\ conversations' = conversations \cup {row}
                  /\ UNCHANGED txn
    /\ Goto(p, AfterConversation(p))
    /\ UNCHANGED <<matchVars, loc, coinVars, messages, quotas, bcache, inactive,
                   sent, qobj, discVars>>

\* get_or_create: the INSERT meets a committed row of the same ordered
\* pair; the IntegrityError is absorbed and the row is read again.  When
\* the second SELECT finds nothing the error leaves the call.
ConvInsertConflict(p) ==
    /\ pc[p] = "conv_insert"
    /\ Conversation_save(Wanted(p)) \in conversations
    /\ IF Wanted(p) \in conversations
       THEN /\ Goto(p, AfterConversation(p))
            /\ UNCHANGED txn
       ELSE /\ Goto(p, "failed")
            /\ txn' = [txn EXCEPT ![p] = {}]
    /\ UNCHANGED <<matchVars, loc, coinVars, msgVars, discVars>>

\* send_message, steps 4 to 8 and the end of the transaction: commit when
\* the steps succeed, rollback when one raises.
SendFinish(p) ==
    /\ pc[p] = "cost"
    /\ LET o == SendTxn(p, loc[p].peer, Ordinary)
       IN /\ conversations' = o.conversations
          /\ messages' = o.messages
          /\ quotas' = o.quotas
          /\ wallets' = o.wallets
          /\ ledger' = o.ledger
          /\ Goto(p, IF o.result = "ok" THEN "done" ELSE "failed")
    /\ txn' = [txn EXCEPT ![p] = {}]
    /\ UNCHANGED <<matchVars, loc, obj, last, bcache, inactive, sent, qobj,
                   discVars>>

ConvInit ==
    /\ swipes = {}
    /\ matches = {}
    /\ blocks = {}
    /\ now = 0
    /\ hist = <<>>
    /\ calls = 0
    /\ pc = [p \in Members |-> "start"]
    /\ txn = [p \in Members |-> {}]
    /\ loc = [p \in Members |-> [mode |-> "none", peer |-> p]]
    /\ wallets = {}
    /\ ledger = <<>>
    /\ obj = [h \in {} |-> {}]
    /\ last = NoOp
    /\ conversations = {}
    /\ messages = <<>>
    /\ quotas = {}
    /\ bcache = {}
    /\ inactive = {}
    /\ sent = NoSend
    /\ qobj = [h \in {} |-> {}]
    /\ profiles = <<>>
    /\ cache = {}
    /\ seen = NoSeen

ConvNext ==
    \/ \E p \in Members : \E r \in Members \ {p} : ApiBegin(p, r)
    \/ \E p \in Members : \E r \in Members \ {p} : SendBegin(p, r)
    \/ \E p \in Members : ConvSelect(p)
    \/ \E p \in Members : ConvInsert(p)
    \/ \E p \in Members : ConvInsertConflict(p)
    \/ \E p \in Members : SendFinish(p)

SpecConv == ConvInit /\ [][ConvNext]_vars

\* ------------------------------------------------- message caches
(***************************************************************************)
(* SpecCache: the cached readers of MessageService, the creation of a      *)
(* message and _invalidate_message_caches, called one after the other on   *)
(* the conversation of users 1 and 2.  Cache keys are the strings of the   *)
(* code split at the underscores between their parts; the participants     *)
(* stand for conversation.id.                                              *)
(***************************************************************************)
\* per_page of get_conversation_messages
PerPage == 50

\* Values of the page argument.
Pages == {1, 2}

\* Values of the limit argument of get_user_conversations: the default and
\* the one ConversationViewSet passes.
ListLimits == {DefaultLimit, 100}

\* f'conversation_messages_{conversation.id}'
ConversationMessagesKey(c) ==
    <<"conversation_messages", c.participant_1, c.participant_2>>

\* f'conversation_messages_{conversation.id}_page_{page}'
ConversationPageKey(c, page) ==
    <<"conversation_messages", c.participant_1, c.participant_2, "page", page>>

\* f'user_conversations_{user.id}'
UserConversationsKey(u) == <<"user_conversations", u>>

\* f'user_conversations_{user.id}_limit_{limit}'
UserConversationsLimitKey(u, limit) == <<"user_conversations", u, "limit", limit>>

\* f'unread_count_{user.id}'
UnreadCountKey(u) == <<"unread_count", u>>

\* f'daily_quota_{conversation.id}_{sender.id}'
DailyQuotaKey(c, u) ==
    <<"daily_quota", c.participant_1, c.participant_2, "sender", u>>

\* A Message row.
MessageRow(c, s, r, read) ==
    [conversation |-> c, sender |-> s, receiver |-> r, coin_cost |-> 0,
     is_read |-> read]

\* The positions of the messages of a conversation, oldest first.
MessagesIn(MS, c) == {i \in DOMAIN MS : MS[i].conversation = c}

\* The elements of a set of positions in increasing order.
RECURSIVE Ascending(_)
Ascending(I) ==
    IF I = {} THEN <<>>
    ELSE LET low == CHOOSE i \in I : \A j \in I : i <= j
         IN <<low>> \o Ascending(I \ {low})

\* Message.objects.filter(conversation=...).order_by('created_at')
\* [offset:offset + per_page], as rows.
MessagePage(MS, c, page) ==
    LET all == Ascending(MessagesIn(MS, c))
        offset == (page - 1) * PerPage
        stop == IF Len(all) < offset + PerPage THEN Len(all) ELSE offset + PerPage
    IN [k \in 1..(IF stop > offset THEN stop - offset ELSE 0) |-> MS[all[offset + k]]]

\* The conversations of a user with the latest message of each (the
\* Prefetch to latest_message), up to limit of them.  The rows carry no
\* last_message_at; any order of the user's conversations is a possible list.
ConversationLists(CV, MS, u, limit) ==
    LET mine == {c \in CV : c.participant_1 = u \/ c.participant_2 = u}
        entry(c) == [conversation |-> c,
                     latest_message |->
                         IF MessagesIn(MS, c) = {} THEN <<>>
                         ELSE <<MS[CHOOSE i \in MessagesIn(MS, c) :
                                      \A j \in MessagesIn(MS, c) : j <= i]>>]
    IN {Take([k \in DOMAIN f |-> entry(f[k])], limit) : f \in Arrangements(mine)}

\* Message.objects.filter(receiver=user, is_read=False).count()
UnreadCount(MS, u) ==
    Cardinality({i \in DOMAIN MS : MS[i].receiver = u /\ ~MS[i].is_read})

\* cache.delete_many(cache_keys)
CacheDeleteMany(C, keys) == {e \in C : e.key \notin keys}

\* The value cached under k, or the computed one, which is then cached.
Cached(C, k, computed) ==
    IF CacheGet(C, k) # {}
    THEN [value |-> (CHOOSE e \in CacheGet(C, k) : TRUE).value, cache |-> C]
    ELSE [value |-> computed, cache |-> CacheSet(C, k, computed)]

\* A call of a reader: its answer and the cache it leaves.
Read(op, arg, n, answer) ==
    /\ calls < MaxCalls
    /\ calls' = calls + 1
    /\ cache' = answer.cache
    /\ seen' = [op |-> op, seq |-> calls', arg |-> arg, n |-> n,
                value |-> answer.value]
    /\ UNCHANGED <<swipes, matches, blocks, now, hist, concVars, coinVars,
                   msgVars, profiles>>

\* MessageService.get_conversation_messages
get_conversation_messages(c, page) ==
    Read("messages", c, page,
         Cached(cache, ConversationPageKey(c, page), MessagePage(messages, c, page)))

\* MessageService.get_user_conversations
get_user_conversations(u, limit) ==
    \E list \in ConversationLists(conversations, messages, u, limit) :
        Read("conversations", u, limit,
             Cached(cache, UserConversationsLimitKey(u, limit), list))

\* MessageService.get_unread_message_count
get_unread_message_count(u) ==
    Read("unread", u, 0, Cached(cache, UnreadCountKey(u), UnreadCount(messages, u)))

\* Message.objects.create(conversation, sender, receiver, content, coin_cost)
Message_create(c, s, r) ==
    /\ calls < MaxCalls
    /\ calls' = calls + 1
    /\ messages' = Append(messages, MessageRow(c, s, r, FALSE))
    /\ seen' = [op |-> "create", seq |-> calls', conversation |-> c,
                sender |-> s, receiver |-> r]
    /\ UNCHANGED <<swipes, matches, blocks, now, hist, concVars, coinVars,
                   conversations, quotas, bcache, inactive, sent, qobj,
                   profiles, cache>>

\* MessageService._invalidate_message_caches(sender, receiver, conversation)
invalidate_message_caches(s, r, c) ==
    /\ calls < MaxCalls
    /\ calls' = calls + 1
    /\ cache' = CacheDeleteMany(cache,
                    {ConversationMessagesKey(c), UserConversationsKey(s),
                     UserConversationsKey(r), UnreadCountKey(r),
                     DailyQuotaKey(c, s)})
    /\ seen' = [op |-> "invalidate", seq |-> calls', conversation |-> c,
                sender |-> s, receiver |-> r]
    /\ UNCHANGED <<swipes, matches, blocks, now, hist, concVars, coinVars,
                   msgVars, profiles>>

\* MessageService.mark_conversation_as_read
mark_conversation_as_read(c, u) ==
    /\ calls < MaxCalls
    /\ calls' = calls + 1
    /\ messages' = [i \in DOMAIN messages |->
                       IF messages[i].conversation = c /\ messages[i].receiver = u
                       THEN [messages[i] EXCEPT !.is_read = TRUE]
                       ELSE messages[i]]
    /\ cache' = CacheDelete(cache, UnreadCountKey(u))
    /\ seen' = [op |-> "mark_read", seq |-> calls', conversation |-> c,
                sender |-> u, receiver |-> u]
    /\ UNCHANGED <<swipes, matches, blocks, now, hist, concVars, coinVars,
                   conversations, quotas, bcache, inactive, sent, qobj,
                   profiles>>

\* A cache entry reaches its timeout (120, 60 or 30).
ExpireEntry(k) ==
    /\ CacheGet(cache, k) # {}
    /\ cache' = CacheDelete(cache, k)
    /\ UNCHANGED <<matchVars, concVars, coinVars, msgVars, profiles, seen>>

\* The conversation of users 1 and 2 exists and has no message.
CacheInit ==
    /\ swipes = {}
    /\ matches = {}
    /\ blocks = {}
    /\ now = 0
    /\ hist = <<>>
    /\ calls = 0
    /\ pc = [p \in {} |-> "idle"]
    /\ txn = [p \in {} |-> {}]
    /\ loc = [p \in {} |-> {}]
    /\ wallets = {}
    /\ ledger = <<>>
    /\ obj = [h \in {} |-> {}]
    /\ last = NoOp
    /\ conversations = {Canonical(1, 2)}
    /\ messages = <<>>
    /\ quotas = {}
    /\ bcache = {}
    /\ inactive = {}
    /\ sent = NoSend
    /\ qobj = [h \in {} |-> {}]
    /\ profiles = <<>>
    /\ cache = {}
    /\ seen = NoSeen

CacheNext ==
    \/ \E c \in conversations, page \in Pages : get_conversation_messages(c, page)
    \/ \E u \in Users, limit \in ListLimits : get_user_conversations(u, limit)
    \/ \E u \in Users : get_unread_message_count(u)
    \/ \E c \in conversations, s \in Users : Message_create(c, s, Peer(s))
    \/ \E c \in conversations, s \in Users : invalidate_message_caches(s, Peer(s), c)
    \/ \E c \in conversations, u \in Users : mark_conversation_as_read(c, u)
    \/ \E e \in cache : ExpireEntry(e.key)

SpecCache == CacheInit /\ [][CacheNext]_vars

\* ------------------------------------------------- claims: match ledger
\* The Match rows between two users, in both directions.
Between(M, a, b) == MatchesOf(M, a, b) \cup MatchesOf(M, b, a)

\* C1: whenever a Match row a -> b is mutual, the reverse row b -> a exists
\* and is mutual too, after any sequence of swipe, accept, reject and block.
C1_MutualBothDirections ==
    \A m \in matches :
        m.is_mutual => \E r \in MatchesOf(matches, m.matched_user, m.user) : r.is_mutual

\* A mutual pair exists right after an accept or a reject was served.
C1_Witness ==
    /\ hist # <<>>
    /\ hist[Len(hist)].op \in {"accept", "reject"}
    /\ \E m \in matches : m.is_mutual

\* The last two requests were a like from a pair without rows and the
\* reciprocal like.
ReciprocalLikes ==
    /\ Len(hist) = 2
    /\ hist[1].op = "like" /\ hist[1].fresh
    /\ hist[2].op = "like"
    /\ hist[2].user = hist[1].target /\ hist[2].target = hist[1].user

\* C2: like(a -> b) from no rows followed by like(b -> a) leaves exactly two
\* Match rows between a and b, one per direction, both mutual and matched;
\* the first call returns no mutual match, the second returns one.
C2_ReciprocalLikesMatch ==
    ReciprocalLikes =>
        LET a == hist[1].user
            b == hist[1].target
        IN /\ Cardinality(Between(matches, a, b)) = 2
           /\ Cardinality(MatchesOf(matches, a, b)) = 1
           /\ Cardinality(MatchesOf(matches, b, a)) = 1
           /\ \A m \in Between(matches, a, b) : m.is_mutual /\ m.status = StatusMatched
           /\ ~hist[1].mutual
           /\ hist[2].mutual

C2_Witness == ReciprocalLikes

\* C4: the two rows of a mutual pair carry the same matched_at.
C4_EqualMatchedAt ==
    \A m \in matches : \A r \in MatchesOf(matches, m.matched_user, m.user) :
        (m.is_mutual /\ r.is_mutual) => m.matched_at = r.matched_at

\* Both concurrent swipe requests have returned (a response or an error).
BothFinished == \A p \in Users : pc[p] \in {"done", "failed"}

\* C3: once two concurrent reciprocal likes have both finished, both
\* directional Match rows exist and are mutual.
C3_ConcurrentLikesConverge ==
    BothFinished =>
        \A u \in Users :
            /\ MatchesOf(matches, u, Peer(u)) # {}
            /\ \A m \in MatchesOf(matches, u, Peer(u)) : m.is_mutual

\* C21: a swipe whose target is the actor is rejected and writes nothing:
\* no SwipeAction row has user = target_user and no Match row has
\* user = matched_user.
C21_SelfSwipeRejected ==
    /\ \A r \in swipes : r.user # r.target_user
    /\ \A m \in matches : m.user # m.matched_user

\* C22: a swipe request that ended with an error leaves no half-promoted
\* pair behind: its own Match row is not mutual while the reverse row is
\* missing or not mutual.
C22_FailedSwipeLeavesNoHalfPromotion ==
    \A p \in Users :
        pc[p] = "failed" =>
            ~(/\ \E m \in MatchesOf(matches, p, Peer(p)) : m.is_mutual
              /\ \A r \in MatchesOf(matches, Peer(p), p) : ~r.is_mutual)

\* C23: neither of two concurrent swipe requests that race to create the
\* same directional Match row ends with an error.
C23_NoVisibleConflictError == \A p \in Users : pc[p] # "failed"

\* The step just taken is a matching request; Latest is that request.
CallStep == calls' # calls /\ hist' # <<>>
Latest(h) == h[Len(h)]

\* C17: there is at most one SwipeAction row per ordered (actor, target)
\* pair, and after a swipe it carries the action and the score of that swipe.
C17_OneSwipeRowLatestWins ==
    /\ \A r1 \in swipes : \A r2 \in swipes :
           (r1.user = r2.user /\ r1.target_user = r2.target_user) => r1 = r2
    /\ (hist # <<>> /\ Latest(hist).op \in {"like", "pass"}) =>
           \E r \in SwipesOf(swipes, Latest(hist).user, Latest(hist).target) :
               /\ r.action = Latest(hist).op
               /\ r.match_score_at_swipe = Latest(hist).score

\* A like was followed by a pass of the same actor on the same target.
SamePairTwice ==
    /\ Len(hist) = 2
    /\ hist[2].user = hist[1].user
    /\ hist[2].target = hist[1].target

C17_Witness ==
    /\ SamePairTwice
    /\ hist[1].op = "like"
    /\ hist[2].op = "pass"
    /\ Cardinality(SwipesOf(swipes, hist[2].user, hist[2].target)) = 1

\* C18: a swipe with action pass creates, modifies and deletes no Match row,
\* whether its swipe row is new or overwrites an earlier like.
C18_PassLeavesMatchesAlone ==
    [][(CallStep /\ Latest(hist').op = "pass") => matches' = matches]_vars

\* A pass overwrote a like that had produced a mutual match.
C18_Witness ==
    /\ SamePairTwice
    /\ hist[1].op = "like"
    /\ hist[1].mutual
    /\ hist[2].op = "pass"
    /\ \E m \in MatchesOf(matches, hist[2].user, hist[2].target) : m.is_mutual

\* C19: a like on a pair whose directional Match row exists does not
\* downgrade the row (a matched, mutual row stays matched and mutual; no
\* status goes back) and creates no second row for the ordered pair.
C19_LikeNeverDowngrades ==
    [][(CallStep /\ Latest(hist').op = "like") =>
          LET u == Latest(hist').user
              t == Latest(hist').target
          IN /\ Cardinality(MatchesOf(matches', u, t)) = 1
             /\ \A m \in MatchesOf(matches, u, t) :
                    \A n \in MatchesOf(matches', u, t) :
                        /\ m.is_mutual => n.is_mutual
                        /\ n.status \in {m.status, StatusMatched}]_vars

\* A like was repeated on a pair that was already a mutual match.
C19_Witness ==
    /\ SamePairTwice
    /\ hist[1].op = "like"
    /\ hist[1].mutual
    /\ hist[2].op = "like"
    /\ \A m \in MatchesOf(matches, hist[2].user, hist[2].target) :
           m.is_mutual /\ m.status = StatusMatched

\* C20: right after a block between two users no Match row between them
\* exists, in either direction, whether the rows were pending or mutual.
C20_BlockDeletesMatches ==
    (hist # <<>> /\ Latest(hist).op = "block") =>
        Between(matches, Latest(hist).user, Latest(hist).target) = {}

\* A block followed a like that had made the pair a mutual match.
C20_Witness ==
    /\ Len(hist) = 2
    /\ hist[1].op = "like"
    /\ hist[1].mutual
    /\ hist[2].op = "block"
    /\ {hist[2].user, hist[2].target} = {hist[1].user, hist[1].target}

\* ------------------------------------------------- claims: coin wallet
RECURSIVE SumAmounts(_)
SumAmounts(L) == IF L = <<>> THEN 0 ELSE L[1].amount + SumAmounts(Tail(L))

\* Stored balance right before the i-th CoinTransaction of the ledger.
BalanceBefore(i) == IF i = 1 THEN StartBalance ELSE ledger[i - 1].balance_after

\* Entries i..j of the ledger are all debits.
DebitRun(i, j) == \A k \in i..j : ledger[k].amount < 0

\* C5: under any interleaving of addCoins and deductCoins, also through
\* wallet objects loaded before another caller's debit committed, two debits
\* never both succeed when their combined amount exceeds the balance, and the
\* stored balance is never negative.
C5_NoOverdraft ==
    /\ \A w \in wallets : w.balance >= 0
    /\ \A i \in 1..Len(ledger) : \A j \in (i + 1)..Len(ledger) :
           DebitRun(i, j) =>
               -(ledger[i].amount + ledger[j].amount) <= BalanceBefore(i)

\* A caller whose wallet object still showed enough coins tried a debit after
\* another debit had emptied the stored balance, and the debit was refused.
C5_Witness ==
    /\ last.op = "deduct"
    /\ last.result = "db_error"
    /\ \E i \in 1..Len(ledger) : ledger[i].amount < 0

\* C6: deductCoins(amount) on a wallet whose balance is less than amount
\* returns an insufficient-balance error and leaves balance, total_earned,
\* total_spent and the CoinTransaction rows unchanged.
C6_InsufficientBalanceError ==
    (/\ last.op = "deduct"
     /\ \E w \in last.wallets : w.balance < last.amount)
        => /\ last.result = "insufficient"
           /\ wallets = last.wallets
           /\ ledger = last.ledger

\* C7: every successful addCoins(n) or deductCoins(n) appends exactly one
\* CoinTransaction, with amount +n for a credit and -n for a debit and with
\* balance_after equal to the stored balance right after the operation.
C7_OneTransactionPerOperation ==
    last.result = "ok" =>
        /\ Len(ledger) = Len(last.ledger) + 1
        /\ SubSeq(ledger, 1, Len(last.ledger)) = last.ledger
        /\ LET t == ledger[Len(ledger)]
           IN /\ t.amount = IF last.op = "deduct" THEN -last.amount ELSE last.amount
              /\ \A w \in WalletOf(wallets, t.wallet) : t.balance_after = w.balance

\* A debit of the whole remaining balance succeeded (balance 5, deduct 5).
C7_Witness ==
    /\ last.op = "deduct"
    /\ last.result = "ok"
    /\ \E w \in wallets : w.balance = 0
    /\ \E w \in last.wallets : w.balance = last.amount

\* C8: the sum of all CoinTransaction amounts of a wallet equals the wallet's
\* current balance minus its starting balance.
C8_LedgerSumsToBalance ==
    /\ wallets = {} => ledger = <<>>
    /\ \A w \in wallets : SumAmounts(ledger) = w.balance - StartBalance

\* Purchases or rewards and debits have all been recorded.
C8_Witness ==
    /\ \E i \in 1..Len(ledger) : ledger[i].amount < 0
    /\ \E i \in 1..Len(ledger) : ledger[i].transaction_type = "purchase"
    /\ \E i \in 1..Len(ledger) : ledger[i].transaction_type = "reward"

\* C9: in every state of a wallet, from its lazy creation on,
\* balance = total_earned - total_spent.
C9_BalanceIsEarnedMinusSpent ==
    \A w \in wallets : w.balance = w.total_earned - w.total_spent

\* A wallet that has been credited by a purchase and debited.
C9_Witness ==
    \E w \in wallets : w.total_purchased > 0 /\ w.total_spent > 0

\* ------------------------------------------------- claims: messaging
\* The step just taken is a send_message call.
SendStep == sent'.seq # sent.seq /\ sent'.op = "send"

\* The tables send_message writes are as before the step.
TablesUnchanged ==
    /\ conversations' = conversations
    /\ messages' = messages
    /\ quotas' = quotas
    /\ wallets' = wallets
    /\ ledger' = ledger

\* The input of the call recorded in c is one validation rejects.
InvalidInput(c) ==
    \/ c.sender = c.receiver
    \/ c.sender \in inactive
    \/ c.receiver \in inactive
    \/ c.content.stripped = 0
    \/ c.content.raw > MaxContent

\* C12: send_message is refused and changes no conversation, message, wallet,
\* ledger or quota row when sender equals receiver, when either user is
\* inactive, when the content is empty after trimming or when it is longer
\* than the maximum length.
C12_InvalidSendChangesNothing ==
    [][(SendStep /\ InvalidInput(sent'))
          => (sent'.result \in {"denied", "invalid"} /\ TablesUnchanged)]_vars

\* A send with over-long content was refused after it had passed the
\* permission check (the block check left its cache entry).
C12_Witness ==
    /\ sent.op = "send"
    /\ sent.reason = "too_long"
    /\ bcache # {}

FreeUsed(Q, u, d) ==
    IF QuotasOf(Q, u, d) = {} THEN 0
    ELSE (CHOOSE q \in QuotasOf(Q, u, d) : TRUE).free_messages_used

\* C14: the cost of a send is computed from the sender's quota row of the
\* day: 0 exactly when free_messages_used < FREE_MESSAGES_LIMIT (the first
\* three messages of a fresh quota), the unit cost otherwise.
C14_FreeThenPaid ==
    [][(SendStep /\ sent'.step >= 4)
          => /\ sent'.reason # "quota_lookup"
             /\ sent'.cost = (IF FreeUsed(quotas, sent'.sender, now)
                                    < FREE_MESSAGES_LIMIT
                              THEN 0 ELSE MESSAGE_COIN_COST)]_vars

\* C15: the quota lookups of calculate_message_cost and of send_message are
\* made for (sender, today), not for the conversation.
C15_QuotaPerSenderAndDay ==
    [][(SendStep /\ sent'.step >= 4)
          => sent'.key = [user |-> UserObj(sent'.sender),
                          date |-> DateObj(now)]]_vars

\* C16: every DailyMessageQuota row has
\* total_messages_sent = free_messages_used + paid_messages_sent.
C16_TotalIsFreePlusPaid ==
    \A q \in quotas :
        q.total_messages_sent = q.free_messages_used + q.paid_messages_sent

\* Two callers incremented the same quota row, one through an object loaded
\* before the other's increment, with a free and a paid message.
C16_Witness ==
    /\ \E q \in quotas : q.total_messages_sent > 0
    /\ \E h \in DOMAIN qobj : \E o \in qobj[h] :
           /\ o.free_messages_used > 0
           /\ \E q \in QuotasOf(quotas, o.user, o.date) :
                  q.paid_messages_sent > 0 /\ q.free_messages_used = 0

\* ------------------------------------------------- claims: scores
\* C30: calculate_age_score, calculate_interest_score,
\* calculate_relationship_goal_score and calculate_match_score each return
\* an integer between 0 and 100 for importance 1..5, every age and age range
\* with min <= max, empty and non-empty interest sets, set and unset goals.
C30_ScoresWithinRange ==
    (seen.op \in {"age", "interests", "goals", "overall"} /\ seen.done)
        => seen.result \in 0..100

\* A call has returned at a boundary input: the age score of a zero-width
\* range with importance 5, or the overall score of a target without age
\* with the two remaining importances at 5.
C30_Witness ==
    /\ seen.done
    /\ \/ (seen.op = "age" /\ seen.min_age = seen.max_age
                          /\ seen.importance = 5 /\ seen.result = 100)
       \/ (seen.op = "overall" /\ seen.target_profile.age = NoAge
                              /\ seen.preferences.interests_importance = 5
                              /\ seen.preferences.relationship_goal_importance = 5
                              /\ seen.result > 50)

\* Twice the distance of an age from the midpoint of a range.
TwiceFromMidpoint(t, mn, mx) == Abs(2 * t - (mn + mx))

\* C31: calculate_age_score returns 0 for a target age below min_age or
\* above max_age, and, for the same range and importance, a target age at
\* least as far from the midpoint of the range never scores higher.
C31_AgeScoreZeroOutsideAndMonotone ==
    (seen.op = "age" /\ seen.done) =>
        /\ (seen.target_age < seen.min_age \/ seen.target_age > seen.max_age)
               => seen.result = 0
        /\ \A t \in TargetAges :
               TwiceFromMidpoint(t, seen.min_age, seen.max_age)
                   >= TwiceFromMidpoint(seen.target_age, seen.min_age, seen.max_age)
               => calculate_age_score(25, t, seen.min_age, seen.max_age,
                                      seen.importance) <= seen.result

\* A call has returned a positive score for an age inside the range that is
\* off the midpoint, and an age of the range further away scores strictly
\* less but more than zero.
C31_Witness ==
    /\ seen.op = "age" /\ seen.done /\ seen.result > 0
    /\ TwiceFromMidpoint(seen.target_age, seen.min_age, seen.max_age) > 0
    /\ \E t \in seen.min_age..seen.max_age :
          LET far == calculate_age_score(25, t, seen.min_age, seen.max_age,
                                         seen.importance)
          IN far > 0 /\ far < seen.result

\* The sub-scores of a call of calculate_match_score with their weights:
\* interests and goals always, age when the target has one.
Factors(call) ==
    LET q == call.preferences
        a == call.user_profile
        b == call.target_profile
    IN (IF b.age # NoAge
        THEN {[score |-> calculate_age_score(IF a.age # NoAge THEN a.age ELSE 25,
                                             b.age, a.min_age_preference,
                                             a.max_age_preference, q.age_importance),
               weight |-> q.age_importance, factor |-> "age"]}
        ELSE {})
       \cup {[score |-> calculate_interest_score(InterestRowIds(a), InterestRowIds(b),
                                                 q.interests_importance),
              weight |-> q.interests_importance, factor |-> "interests"],
             [score |-> calculate_relationship_goal_score(
                            a.relationship_goal, b.relationship_goal,
                            q.relationship_goal_importance),
              weight |-> q.relationship_goal_importance, factor |-> "goals"]}

RECURSIVE WeightedTotal(_)
WeightedTotal(F) ==
    IF F = {} THEN 0
    ELSE LET f == CHOOSE x \in F : TRUE
         IN f.score * f.weight + WeightedTotal(F \ {f})

RECURSIVE WeightTotal(_)
WeightTotal(F) ==
    IF F = {} THEN 0
    ELSE LET f == CHOOSE x \in F : TRUE
         IN f.weight + WeightTotal(F \ {f})

\* C32: calculate_match_score returns the weighted average of its factors,
\* sum(score * weight) / sum(weight), truncated to an integer and clamped to
\* 0..100; the age factor is part of it only when the target has an age.
C32_OverallIsTruncatedWeightedAverage ==
    (seen.op = "overall" /\ seen.done) =>
        LET F == Factors(seen)
        IN seen.result = Clamp(WeightedTotal(F) \div WeightTotal(F))

\* A call has returned for a target without an age, where the weighted sum
\* of the two remaining factors is not a multiple of their weight, so the
\* quotient is cut.
C32_Witness ==
    /\ seen.op = "overall" /\ seen.done
    /\ seen.target_profile.age = NoAge
    /\ seen.user_profile.min_age_preference < seen.user_profile.max_age_preference
    /\ WeightedTotal(Factors(seen)) % WeightTotal(Factors(seen)) # 0
    /\ seen.result * WeightTotal(Factors(seen)) < WeightedTotal(Factors(seen))

\* ------------------------------------------------- claims: discovery
\* The step just taken is a call of get_potential_matches.
DiscoverStep == seen' # seen /\ seen'.op = "discover"

\* The step just taken is a swipe request.
SwipeStep ==
    /\ calls' # calls /\ seen' = seen /\ hist' # <<>>
    /\ Latest(hist').op \in {"like", "pass"}

\* C26: the list get_potential_matches returns never holds the requester, a
\* user with a Block row in either direction at the time of the call, or,
\* when hide_seen_profiles is set, a user the requester has swiped on; with
\* or without a cached list, for every limit.
C26_DiscoveryExcludes ==
    [][DiscoverStep =>
        \A i \in 1..Len(seen'.result) :
            LET c == seen'.result[i]
                u == seen'.user
            IN /\ c # u
               /\ ~BlockRowExists(blocks, u, c)
               /\ profiles.preferences[u].hide_seen_profiles # 0
                      => SwipesOf(swipes, u, c) = {}]_vars

\* C27: the list get_potential_matches(user, limit) returns has at most
\* limit entries and is in non-increasing order of
\* calculate_match_score(user, candidate).
C27_RankedAndLimited ==
    [][DiscoverStep =>
        /\ Len(seen'.result) <= seen'.limit
        /\ \A i, j \in 1..Len(seen'.result) :
               i < j => ScoreOf(profiles, seen'.user, seen'.result[i])
                            >= ScoreOf(profiles, seen'.user, seen'.result[j])]_vars

\* A computed list of limit 1 holds one of two filtered candidates whose
\* scores differ and both reach the threshold.
C27_Witness ==
    /\ seen.op = "discover" /\ ~seen.hit /\ seen.limit = 1
    /\ Len(seen.result) = 1
    /\ \E d \in HardFiltered(profiles, inactive, blocks, swipes, seen.user) :
          /\ ScoreOf(profiles, seen.user, d) >= MIN_MATCH_SCORE
          /\ ScoreOf(profiles, seen.user, d)
                 < ScoreOf(profiles, seen.user, seen.result[1])

\* C28: when a swipe request has completed, the cache holds no discovery
\* list of the actor, for any limit, so none computed before the swipe can
\* be served again.
C28_SwipeInvalidatesDiscovery ==
    [][SwipeStep =>
        \A e \in cache :
            ~(e.key[1] = "potential_matches" /\ e.key[2] = Latest(hist').user
              /\ e \in cache')]_vars

\* ------------------------------------------------- claims: conversations
\* Conversation rows between a and b, in either order.
ConversationsOf(CV, a, b) ==
    {c \in CV : {c.participant_1, c.participant_2} = {a, b}}

\* C24: at every moment there is at most one Conversation row per unordered
\* pair of users, and participant_1 of every row has the lower id,
\* whichever of the two users asked first.
C24_OneCanonicalConversation ==
    /\ \A c \in conversations : c.participant_1 < c.participant_2
    /\ \A a, b \in Members : Cardinality(ConversationsOf(conversations, a, b)) <= 1

\* Requests of both users of a pair have ended and the row of the pair,
\* asked for by the higher id, is stored with the lower id first.
C24_Witness ==
    \E p, q \in Members :
        /\ p < q
        /\ loc[p].peer = q /\ loc[q].peer = p
        /\ pc[p] = "done" /\ pc[q] = "done"
        /\ ConversationsOf(conversations, p, q) = {ConvRow(p, q)}

\* C25: when A sends a first message to B while B sends a first message to
\* A, then once both requests have ended there is exactly one Conversation
\* row of the pair and a message of each sender belongs to it.
C25_ConcurrentFirstMessages ==
    \A a, b \in Members :
        ( /\ a # b
          /\ loc[a] = [mode |-> "send", peer |-> b]
          /\ loc[b] = [mode |-> "send", peer |-> a]
          /\ pc[a] \in {"done", "failed"} /\ pc[b] \in {"done", "failed"} )
        => \E c \in conversations :
              /\ ConversationsOf(conversations, a, b) = {c}
              /\ \A s \in {a, b} :
                    \E i \in DOMAIN messages :
                        messages[i].sender = s /\ messages[i].conversation = c

\* ------------------------------------------------- claims: message caches
\* The step just taken is a call of _invalidate_message_caches.
InvalidateStep == seen' # seen /\ seen'.op = "invalidate"

\* The cache key belongs to the message list of conversation c (any page).
IsMessagesKey(k, c) ==
    /\ k[1] = "conversation_messages"
    /\ k[2] = c.participant_1 /\ k[3] = c.participant_2

\* The cache key belongs to the conversation list of user u (any limit).
IsConversationsKey(k, u) == k[1] = "user_conversations" /\ k[2] = u

\* C29: once the caches of a sent message have been invalidated, the cache
\* holds no message list of the conversation (whatever the page), no
\* conversation list of the sender or the receiver (whatever the limit) and
\* no unread count of the receiver, so the readers called next recompute.
C29_SendInvalidatesCaches ==
    [][InvalidateStep =>
        \A e \in cache' :
            /\ ~IsMessagesKey(e.key, seen'.conversation)
            /\ ~IsConversationsKey(e.key, seen'.sender)
            /\ ~IsConversationsKey(e.key, seen'.receiver)
            /\ e.key # UnreadCountKey(seen'.receiver)]_vars

\* ------------------------------------------------- claims: match ledger, continued
\* Match.MATCH_STATUS
MATCH_STATUS == {"pending", "matched", "passed", "expired"}

\* C33: the status of every Match row is one of pending, matched, passed,
\* expired, after any sequence of swipe, accept, reject and block.
C33_StatusWithinChoices == \A m \in matches : m.status \in MATCH_STATUS

\* C36: no Match row exists between two users while a Block row exists
\* between them in either direction.
C36_NoMatchWhileBlocked ==
    \A a, b \in Users :
        BlockRowExists(blocks, a, b) => Between(matches, a, b) = {}

\* C38: for every Match row, is_mutual, status = matched and matched_at set
\* are all true or all false, after any sequence of swipe, accept, reject
\* and block.
C38_MutualStatusMatchedAtAgree ==
    \A m \in matches :
        /\ m.is_mutual <=> m.status = StatusMatched
        /\ m.is_mutual <=> m.matched_at # NullTime

\* C39: when the Match rows between two users are mutual, both users hold a
\* SwipeAction row on the other with action like.
C39_MutualImpliesBothLikes ==
    \A m \in matches :
        m.is_mutual => /\ LikeExists(swipes, m.user, m.matched_user)
                       /\ LikeExists(swipes, m.matched_user, m.user)

\* recalculate_profile_stats: the number of mutual rows whose user is u.
MutualCount(M, u) == Cardinality({m \in M : m.user = u /\ m.is_mutual})

\* C37: Profile.total_matches of every user equals the number of Match rows
\* with user = that user and is_mutual true.
C37_TotalMatchesIsMutualCount ==
    \A u \in Users : profiles.total_matches[u] = MutualCount(matches, u)

\* ------------------------------------------------- conversation timestamps
(***************************************************************************)
(* SpecStamp: the Message model on the conversation of users 1 and 2.      *)
(* Messages are created, one message is marked read through the model      *)
(* method, a conversation is marked read through the service, and time     *)
(* passes.  The rows carry the timestamp columns.                          *)
(***************************************************************************)
\* A Conversation row with created_at and last_message_at (both auto_now_add).
StampedConversation(c, at) ==
    [kind |-> "Conversation", participant_1 |-> c.participant_1,
     participant_2 |-> c.participant_2, created_at |-> at,
     last_message_at |-> at]

\* A new Message row of conversation c with created_at (auto_now_add).
StampedMessage(c, s, r, at) ==
    [conversation |-> c, sender |-> s, receiver |-> r, coin_cost |-> 0,
     is_read |-> FALSE, created_at |-> at]

\* Message.save after super().save(): the conversation of the message takes
\* the created_at of the message as last_message_at.
Message_save(CS, msg) ==
    {IF row.participant_1 = msg.conversation.participant_1
        /\ row.participant_2 = msg.conversation.participant_2
     THEN [row EXCEPT !.last_message_at = msg.created_at]
     ELSE row : row \in CS}

\* Message.objects.create(conversation=c, sender=s, receiver=r, ...)
Message_objects_create(c, s, r) ==
    /\ calls < MaxCalls
    /\ calls' = calls + 1
    /\ \E t \in Later(now) :
          /\ messages' = Append(messages, StampedMessage(c, s, r, t))
          /\ conversations' = Message_save(conversations, StampedMessage(c, s, r, t))
          /\ now' = t
    /\ seen' = [op |-> "create", seq |-> calls', conversation |-> c,
                sender |-> s, receiver |-> r]
    /\ UNCHANGED <<swipes, matches, blocks, hist, concVars, coinVars, quotas,
                   bcache, inactive, sent, qobj, profiles, cache>>

\* Message.mark_as_read on the i-th message: nothing happens when it is
\* already read; otherwise the row is saved with update_fields, and save()
\* writes the conversation as well.
Message_mark_as_read(i) ==
    /\ calls < MaxCalls
    /\ calls' = calls + 1
    /\ ~messages[i].is_read
    /\ messages' = [messages EXCEPT ![i].is_read = TRUE]
    /\ conversations' = Message_save(conversations, messages[i])
    /\ seen' = [op |-> "mark_as_read", seq |-> calls',
                conversation |-> messages[i].conversation,
                sender |-> messages[i].receiver, receiver |-> messages[i].receiver]
    /\ UNCHANGED <<swipes, matches, blocks, now, hist, concVars, coinVars,
                   quotas, bcache, inactive, sent, qobj, profiles, cache>>

\* The conversation of users 1 and 2 was created at time 0 and has no message.
StampInit ==
    /\ swipes = {}
    /\ matches = {}
    /\ blocks = {}
    /\ now = 0
    /\ hist = <<>>
    /\ calls = 0
    /\ pc = [p \in {} |-> "idle"]
    /\ txn = [p \in {} |-> {}]
    /\ loc = [p \in {} |-> {}]
    /\ wallets = {}
    /\ ledger = <<>>
    /\ obj = [h \in {} |-> {}]
    /\ last = NoOp
    /\ conversations = {StampedConversation(Canonical(1, 2), 0)}
    /\ messages = <<>>
    /\ quotas = {}
    /\ bcache = {}
    /\ inactive = {}
    /\ sent = NoSend
    /\ qobj = [h \in {} |-> {}]
    /\ profiles = <<>>
    /\ cache = {}
    /\ seen = NoSeen

StampNext ==
    \/ \E s \in Users : Message_objects_create(Canonical(1, 2), s, Peer(s))
    \/ \E i \in DOMAIN messages : Message_mark_as_read(i)
    \/ \E u \in Users : mark_conversation_as_read(Canonical(1, 2), u)
    \/ Tick

SpecStamp == StampInit /\ [][StampNext]_vars

\* ------------------------------------------------- claims: conversation timestamps
\* created_at of the most recent message of conversation c.
LatestCreated(MS, c) ==
    LET I == MessagesIn(MS, c)
    IN MS[CHOOSE i \in I : \A j \in I : MS[j].created_at <= MS[i].created_at].created_at

\* C40: after every step, last_message_at of each conversation that has a
\* message equals created_at of its most recent message, and a step that
\* marks messages read leaves last_message_at of every conversation as it was.
C40_LastMessageAtIsLatestCreated ==
    [][/\ \A row \in conversations' :
             LET c == ConvRow(row.participant_1, row.participant_2)
             IN MessagesIn(messages', c) # {}
                    => row.last_message_at = LatestCreated(messages', c)
       /\ seen'.op \in {"mark_as_read", "mark_read"}
             => conversations' = conversations]_vars

\* ------------------------------------------------- claims: daily quota, continued
\* The calls of increment(is_paid=False) made on the quota of (user, date):
\* all of them, and those of callers whose object had free messages remaining.
FreeIncrements(u, d) ==
    IF <<u, d>> \in DOMAIN hist THEN hist[<<u, d>>] ELSE [calls |-> 0, free |-> 0]

\* C35: with callers working on the same quota at the same time, the free
\* sends of a sender and day never exceed FREE_MESSAGES_LIMIT and, as long as
\* every free increment was made with free messages remaining,
\* free_messages_used of the row equals their number: no increment is lost.
C35_NoFreeIncrementLost ==
    \A q \in quotas :
        LET n == FreeIncrements(q.user, q.date)
        IN /\ n.free <= FREE_MESSAGES_LIMIT
           /\ n.calls = n.free => q.free_messages_used = n.free

\* ------------------------------------------------- discovery on a large pool
(***************************************************************************)
(* SpecPool: the requester and four candidates who all pass the filters,   *)
(* so that the filtered pool is larger than 3 * limit for limit 1 and      *)
(* smaller for limit 2.                                                    *)
(***************************************************************************)
PoolMembers == {1, 2, 3, 4, 5}
PoolLimits == {1, 2}

\* Every candidate is a woman of 19 with a complete profile and the
\* requester's goal; one of them has no interest row and scores higher than
\* the three others (interest score 50 instead of 0).
PoolWorlds ==
    {[profile |-> [u \in PoolMembers |->
                      IF u = Requester
                      THEN MemberProfile(u, "M", "F", CurrentYear - 19, 19, 100,
                                         {1}, "casual")
                      ELSE MemberProfile(u, "F", "M", CurrentYear - 19, 19, 100,
                                         IF u = best THEN {} ELSE {1}, "casual")],
      preferences |-> [u \in PoolMembers |-> MemberPreference(1)],
      total_matches |-> [u \in PoolMembers |-> 0]] :
        best \in PoolMembers \ {Requester}}

PoolInit ==
    /\ swipes = {}
    /\ matches = {}
    /\ blocks = {}
    /\ now = 0
    /\ hist = <<>>
    /\ calls = 0
    /\ pc = [p \in {} |-> "idle"]
    /\ txn = [p \in {} |-> {}]
    /\ loc = [p \in {} |-> {}]
    /\ wallets = {}
    /\ ledger = <<>>
    /\ obj = [h \in {} |-> {}]
    /\ last = NoOp
    /\ conversations = {}
    /\ messages = <<>>
    /\ quotas = {}
    /\ bcache = {}
    /\ inactive = {}
    /\ sent = NoSend
    /\ qobj = [h \in {} |-> {}]
    /\ profiles \in PoolWorlds
    /\ cache = {}
    /\ seen = NoSeen

PoolNext ==
    \/ \E limit \in PoolLimits : Discover(Requester, limit)
    \/ \E limit \in PoolLimits : ExpireDiscovery(Requester, limit)

SpecPool == PoolInit /\ [][PoolNext]_vars

\* ------------------------------------------------- claims: discovery, continued
\* The candidates that pass the filters and reach the threshold.
Eligible(user) ==
    {c \in HardFiltered(profiles, inactive, blocks, swipes, user) :
        ScoreOf(profiles, user, c) >= MIN_MATCH_SCORE}

\* C34: in the list a call of get_potential_matches computes, no eligible
\* candidate left out scores strictly higher than a candidate of the list,
\* whatever the size of the filtered pool.
C34_ResultIsTopN ==
    [][(DiscoverStep /\ ~seen'.hit) =>
        \A out \in Eligible(seen'.user) :
            (\A i \in 1..Len(seen'.result) : seen'.result[i] # out)
                => \A i \in 1..Len(seen'.result) :
                       ScoreOf(profiles, seen'.user, out)
                           <= ScoreOf(profiles, seen'.user, seen'.result[i])]_vars

====
